---- MODULE Spec2Model ----
(***************************************************************************)
(* Model of pydefect's formation-energy analysis                           *)
(* (pydefect/analysis/defect_energies.py, pydefect/core/defect_name.py).   *)
(*                                                                         *)
(* Numbers.  Energies and Fermi levels are integers in units of a quarter  *)
(* of 1e-5 eV, so the tolerance 1e-5 of plot_energy is the integer EPS and *)
(* energies that differ by less than the tolerance exist.  A crossing of   *)
(* two charge lines is a rational number whose denominator is a charge     *)
(* difference; every coordinate that plot_energy computes is stored as its *)
(* numerator over the common denominator Den (a "scaled" value).  The      *)
(* arithmetic is exact: floating-point rounding is not modelled.           *)
(*                                                                         *)
(* Python dicts keep insertion order and the code depends on it (min()     *)
(* returns the first minimum, combinations() follows the item order), so a *)
(* dict is a sequence of [k, v] entries in insertion order.                *)
(***************************************************************************)
EXTENDS Integers, Sequences, FiniteSets, TLC

\* ------------------------------------------------------------------ bounds
MaxCharge == 1     \* envelope data sets use the charges -MaxCharge..MaxCharge
MaxEnergy == 3     \* envelope data sets use the energies 0..MaxEnergy
MaxLines == 3     \* most charges of one envelope data set
EnvGap == 2     \* band gap cbm - vbm of the envelope data sets
MaxDefects == 4     \* longest list of defects given to from_objects
MaxLevel == 2     \* energies 1..MaxLevel of the listed defects
MaxRecords == 3     \* longest list of defects of a serialized data set
MaxOxidation == 2     \* candidate charges of the oxidation states -MaxOxidation..MaxOxidation
DomainSamples == 8     \* a stable charge is compared at DomainSamples + 1 Fermi levels of a domain
MaxAtoms == 2     \* most sites of one element in a perfect supercell
MaxInserted == 2     \* most atoms inserted or removed by one defect

\* ------------------------------------------------------- program constants
EPS == 4            \* 1e-5 eV, the tolerance of the validity filter

\* n times 1e-5 eV
EV5(n) == n * EPS

RECURSIVE Gcd(_, _)
Gcd(a, b) == IF b = 0 THEN a ELSE Gcd(b, a % b)

RECURSIVE LcmUpTo(_)
LcmUpTo(n) == IF n <= 1 THEN 1
              ELSE (LcmUpTo(n - 1) * n) \div Gcd(LcmUpTo(n - 1), n)

\* the largest difference of two charges of one name in any data set: the
\* listed defects have the charges 0..3
MaxChargeDiff == IF 2 * MaxCharge > 3 THEN 2 * MaxCharge ELSE 3

\* common denominator of all crossing coordinates: every charge difference
\* that occurs in a data set divides it
Den == LcmUpTo(MaxChargeDiff)

\* Python's None
NoneVal == "<None>"

\* ------------------------------------------------------------ Python dicts
DictKeys(d) == {d[i].k : i \in DOMAIN d}
DictHas(d, key) == \E i \in DOMAIN d : d[i].k = key
DictIndex(d, key) == CHOOSE i \in DOMAIN d : d[i].k = key
DictGet(d, key) == d[DictIndex(d, key)].v
\* d[key] = value: an existing key keeps its position, a new key is appended
DictPut(d, key, value) ==
    IF DictHas(d, key)
    THEN [d EXCEPT ![DictIndex(d, key)] = [k |-> key, v |-> value]]
    ELSE Append(d, [k |-> key, v |-> value])

\* mutant of FirstMinIndex: the last minimum
LastMinIndex(vals) ==
    CHOOSE i \in DOMAIN vals :
        /\ \A j \in DOMAIN vals : vals[i] <= vals[j]
        /\ \A j \in (i + 1)..Len(vals) : vals[j] > vals[i]

\* index of the first minimum of a non-empty sequence of integers: min()
FirstMinIndex(vals) ==
    CHOOSE i \in DOMAIN vals :
        /\ \A j \in DOMAIN vals : vals[i] <= vals[j]
        /\ \A j \in 1..(i - 1) : vals[j] > vals[i]

\* ------------------------------------------------------------------ strings
\* A string is the sequence of its characters.
Digits == <<"0", "1", "2", "3", "4", "5", "6", "7", "8", "9">>

RECURSIVE NatStr(_)
NatStr(n) == IF n < 10 THEN <<Digits[n + 1]>>
             ELSE NatStr(n \div 10) \o <<Digits[(n % 10) + 1]>>

\* str(charge)
IntStr(n) == IF n < 0 THEN <<"-">> \o NatStr(-n) ELSE NatStr(n)

NameChars(name) ==
    CASE name = "Va_O1" -> <<"V", "a", "_", "O", "1">>
      [] name = "Mg_i1" -> <<"M", "g", "_", "i", "1">>
      [] name = "Va_O10" -> <<"V", "a", "_", "O", "1", "0">>
      [] OTHER -> <<>>

AnnotationChars(a) ==
    CASE a = "inward" -> <<"i", "n", "w", "a", "r", "d">>
      [] a = "null" -> <<"n", "u", "l", "l">>
      [] OTHER -> <<>>

\* re.search(p, s) for a pattern without metacharacters
ReSearch(p, s) ==
    \E i \in 0..(Len(s) - Len(p)) : SubSeq(s, i + 1, i + Len(p)) = p

\* DefectName.__str__: None and "" are falsy
DefectNameStr(name, charge, annotation) ==
    IF annotation # NoneVal /\ AnnotationChars(annotation) # <<>>
    THEN NameChars(name) \o <<"_">> \o IntStr(charge) \o <<"_">>
             \o AnnotationChars(annotation)
    ELSE NameChars(name) \o <<"_">> \o IntStr(charge)

\* DefectName.is_name_matched; keywords = [given |-> FALSE] is None
IsNameMatched(name, charge, annotation, keywords) ==
    IF ~keywords.given THEN TRUE
    ELSE \E i \in DOMAIN keywords.pats :
             ReSearch(keywords.pats[i],
                      DefectNameStr(name, charge, annotation))

\* --------------------------------------------------------------- from_objects
\* DefectEnergy(energy, convergence, is_shallow)
DefectEnergy(e, conv, shallow) ==
    [energy |-> e, convergence |-> conv, is_shallow |-> shallow]

\* mutant of SetValue: dictionary[name][charge] = {annotation: v}
SetValueAlone(dictionary, name, charge, annotation, value) ==
    LET byCharge == IF DictHas(dictionary, name)
                    THEN DictGet(dictionary, name) ELSE <<>>
    IN  DictPut(dictionary, name,
                DictPut(byCharge, charge, DictPut(<<>>, annotation, value)))

\* set_value: dictionary[name].setdefault(charge, {}).update({annotation: v})
SetValue(dictionary, name, charge, annotation, value) ==
    LET byCharge == IF DictHas(dictionary, name)
                    THEN DictGet(dictionary, name) ELSE <<>>
        byAnn    == IF DictHas(byCharge, charge)
                    THEN DictGet(byCharge, charge) ELSE <<>>
    IN  DictPut(dictionary, name,
                DictPut(byCharge, charge, DictPut(byAnn, annotation, value)))

\* the loop of from_objects over the defects, for the energy table
RECURSIVE FromObjects(_)
FromObjects(defects) ==
    IF defects = <<>> THEN <<>>
    ELSE LET d == defects[Len(defects)]
         IN  SetValue(FromObjects(SubSeq(defects, 1, Len(defects) - 1)),
                      d.name, d.charge, d.annotation,
                      DefectEnergy(d.energy, d.convergence, d.is_shallow))

\* mul = n_sites * initial_nsymop / final_nsymop and
\* mag = round(total_magnetization, 1) of a defect
Mul(d) == (d.num_equiv_sites * d.initial_nsymop) \div d.final_nsymop
Mag(d) == d.total_magnetization

\* the loop of from_objects over the defects, for the multiplicity table
RECURSIVE FromObjectsMultiplicity(_)
FromObjectsMultiplicity(defects) ==
    IF defects = <<>> THEN <<>>
    ELSE LET d == defects[Len(defects)]
         IN  SetValue(FromObjectsMultiplicity(
                          SubSeq(defects, 1, Len(defects) - 1)),
                      d.name, d.charge, d.annotation, Mul(d))

\* the loop of from_objects over the defects, for the magnetization table
RECURSIVE FromObjectsMagnetization(_)
FromObjectsMagnetization(defects) ==
    IF defects = <<>> THEN <<>>
    ELSE LET d == defects[Len(defects)]
         IN  SetValue(FromObjectsMagnetization(
                          SubSeq(defects, 1, Len(defects) - 1)),
                      d.name, d.charge, d.annotation, Mag(d))

\* -------------------------------------------------------------- DefectEnergies.u
\* What a call of u ends in: a returned (U, annotations) pair or an exception.
\* key_kind/key_charge/key_str hold the key of a KeyError; printed is the
\* "Charge c does not exist for name." message with its charge.
UOutcome(kind, value, anns, keyKind, keyCharge, keyStr, printed, pc) ==
    [kind |-> kind, value |-> value, annotations |-> anns,
     key_kind |-> keyKind, key_charge |-> keyCharge, key_str |-> keyStr,
     printed |-> printed, printed_charge |-> pc]

UReturn(value, annotations) ==
    UOutcome("return", value, annotations, "none", 0, "", FALSE, 0)
UKeyErrorName(name, printed, c) ==
    UOutcome("KeyError", 0, <<>>, "name", 0, name, printed, c)
UKeyErrorCharge(c, printed) ==
    UOutcome("KeyError", 0, <<>>, "charge", c, "", printed, c)
UKeyErrorAnnotation(a) ==
    UOutcome("KeyError", 0, <<>>, "annotation", 0, a, FALSE, 0)
UOtherError(kind) ==
    UOutcome(kind, 0, <<>>, "none", 0, "", FALSE, 0)

\* "assert ValueError(...)" asserts an exception instance; every instance is
\* truthy, so the assert statement passes and nothing is raised
AssertFails(asserted_is_truthy) == ~asserted_is_truthy

\* the three checks of the charge list: TRUE iff one of them raises
ChargesCheckRaises(charges) ==
    IF Len(charges) # 3
    THEN AssertFails(TRUE)
    ELSE IF charges[3] - charges[2] # 1 \/ charges[2] - charges[1] # 1
    THEN AssertFails(TRUE)
    ELSE IF ~(charges[1] < charges[2] /\ charges[2] < charges[3])
    THEN AssertFails(TRUE)
    ELSE FALSE

\* mutants of UValue: the factor 2 is lost; the sign is turned round
UValueNoDouble(energies) == energies[1] + energies[3] - energies[2]
UValueNegated(energies) == 2 * energies[2] - energies[1] - energies[3]

\* energies[0] + energies[2] - 2 * energies[1]
UValue(energies) == energies[1] + energies[3] - 2 * energies[2]

UFinish(energies, annotations) ==
    IF Len(energies) < 3 THEN UOtherError("IndexError")
    ELSE UReturn(UValue(energies), annotations)

\* the loop "for c in charges" when annotations is None
RECURSIVE UAutoLoop(_, _, _, _, _, _)
UAutoLoop(de, name, charges, i, energies, annotations) ==
    IF i > Len(charges) THEN UFinish(energies, annotations)
    ELSE LET c == charges[i] IN
         IF ~DictHas(de, name) THEN UKeyErrorName(name, TRUE, c)
         ELSE IF ~DictHas(DictGet(de, name), c) THEN UKeyErrorCharge(c, TRUE)
         ELSE LET items == DictGet(DictGet(de, name), c) IN
              IF items = <<>>
              THEN UOtherError("ValueError")   \* min() arg is an empty sequence
              ELSE LET m == items[FirstMinIndex(
                                [j \in DOMAIN items |-> items[j].v.energy])]
                   IN  UAutoLoop(de, name, charges, i + 1,
                                 Append(energies, m.v.energy),
                                 Append(annotations, m.k))

\* the loop "for c, a in zip(charges, annotations)"
RECURSIVE UGivenLoop(_, _, _, _, _, _)
UGivenLoop(de, name, charges, given, i, energies) ==
    IF i > Len(charges) \/ i > Len(given) THEN UFinish(energies, given)
    ELSE LET c == charges[i]
             a == given[i]
         IN  IF ~DictHas(de, name) THEN UKeyErrorName(name, FALSE, 0)
             ELSE IF ~DictHas(DictGet(de, name), c)
             THEN UKeyErrorCharge(c, FALSE)
             ELSE IF ~DictHas(DictGet(DictGet(de, name), c), a)
             THEN UKeyErrorAnnotation(a)
             ELSE UGivenLoop(de, name, charges, given, i + 1,
                     Append(energies,
                            DictGet(DictGet(DictGet(de, name), c), a).energy))

\* u(name, charges, annotations); annotations = [given |-> FALSE] is None
U(de, name, charges, annotations) ==
    IF ChargesCheckRaises(charges) THEN UOtherError("AssertionError")
    ELSE IF ~annotations.given
    THEN UAutoLoop(de, name, charges, 1, <<>>, <<>>)
    ELSE UGivenLoop(de, name, charges, annotations.list, 1, <<>>)

\* ------------------------------------------------------------------ min_e_at_ef
\* ec is the dict charge -> energy; ef_s is the Fermi level scaled by Den.
\* Returns the first item of {c: e + c * ef} with the lowest value, the value
\* scaled by Den.
\* mutant of LineAt: the slope has the wrong sign
LineAtFalling(c, e, ef_s) == Den * e - c * ef_s

LineAt(c, e, ef_s) == Den * e + c * ef_s

MinEAtEf(ec, ef_s) ==
    LET vals == [j \in DOMAIN ec |-> LineAt(ec[j].k, ec[j].v, ef_s)]
        i    == FirstMinIndex(vals)
    IN  [charge |-> ec[i].k, y |-> vals[i]]

\* ----------------------------------------------------------------- plot_energy
\* mutant of Omitted: a shallow record is popped whatever the flag says
OmittedShallowAlways(name, charge, annotation, defect_energy, fw, exU, exS) ==
    IF ~IsNameMatched(name, charge, annotation, fw) THEN TRUE
    ELSE IF defect_energy.is_shallow THEN TRUE
    ELSE IF exU /\ defect_energy.convergence = FALSE THEN TRUE
    ELSE FALSE

\* mutant of Omitted: no record is popped
OmittedNever(name, charge, annotation, defect_energy, fw, exU, exS) == FALSE

\* the if/elif chain of the filtering loop: TRUE iff the record is popped
Omitted(name, charge, annotation, defect_energy, fw, exU, exS) ==
    IF ~IsNameMatched(name, charge, annotation, fw) THEN TRUE
    ELSE IF exS /\ defect_energy.is_shallow THEN TRUE
    ELSE IF exU /\ defect_energy.convergence = FALSE THEN TRUE
    ELSE FALSE

\* mutant of PopOmitted: every run pops one annotation more than it omits
PopOmittedOneMore(name, charge, energy_by_annotation, fw, exU, exS) ==
    LET Kept(item) == ~Omitted(name, charge, item.k, item.v, fw, exU, exS)
        kept == SelectSeq(energy_by_annotation, Kept)
    IN  IF kept = <<>> THEN <<>> ELSE Tail(kept)

\* energy_by_annotation after the loop over copy(energy_by_annotation): the
\* omitted annotations are popped from the dict that the data set holds
PopOmitted(name, charge, energy_by_annotation, fw, exU, exS) ==
    LET Kept(item) == ~Omitted(name, charge, item.k, item.v, fw, exU, exS)
    IN  SelectSeq(energy_by_annotation, Kept)

\* self.defect_energies after the filtering loops of plot_energy: the inner
\* dicts are shared with the copies that are iterated, so the pops reach the
\* data set; a charge whose annotations are all popped stays as an empty dict
EnergiesAfterFiltering(de, fw, exU, exS) ==
    [i \in DOMAIN de |->
        [k |-> de[i].k,
         v |-> [j \in DOMAIN de[i].v |->
                  [k |-> de[i].v[j].k,
                   v |-> PopOmitted(de[i].k, de[i].v[j].k, de[i].v[j].v,
                                    fw, exU, exS)]]]]

\* lowest_energies[name] and lowest_energy_annotations[name] in one dict: for
\* every charge with a remaining annotation, in the order of the charges, the
\* first minimum of the energies and its annotation
LowestOfName(energy_by_charge) ==
    LET NonEmpty(item) == item.v # <<>>
        rest == SelectSeq(energy_by_charge, NonEmpty)
    IN  [j \in DOMAIN rest |->
            LET items == rest[j].v
                m == items[FirstMinIndex(
                         [n \in DOMAIN items |-> items[n].v.energy])]
            IN  [k |-> rest[j].k, v |-> m.v.energy, a |-> m.k]]

\* itertools.combinations(range(1, n + 1), 2), as index pairs
RECURSIVE Combinations2From(_, _)
Combinations2From(i, n) ==
    IF i >= n THEN <<>>
    ELSE [j \in 1..(n - i) |-> <<i, i + j>>] \o Combinations2From(i + 1, n)

\* exact quotient num / den scaled by Den (den divides Den)
ScaledQuotient(num, den) ==
    IF den > 0 THEN (num * Den) \div den ELSE ((-num) * Den) \div (-den)

\* mutant of CrossX: the leading minus sign is lost
CrossXNoMinus(c1, e1, c2, e2) == ScaledQuotient(e1 - e2, c1 - c2)

\* mutant of CrossY: the energies are exchanged
CrossYSwapped(c1, e1, c2, e2) == ScaledQuotient(c1 * e1 - c2 * e2, c1 - c2)

\* x = - (e1 - e2) / (c1 - c2) and y = (c1 * e2 - c2 * e1) / (c1 - c2)
CrossX(c1, e1, c2, e2) == ScaledQuotient(-(e1 - e2), c1 - c2)
CrossY(c1, e1, c2, e2) == ScaledQuotient(c1 * e2 - c2 * e1, c1 - c2)

\* min([energy + c * x for c, energy in lowest_energies[name].items()])
ComparedEnergy(ec, x_s) ==
    LET vals == [j \in DOMAIN ec |-> LineAt(ec[j].k, ec[j].v, x_s)]
    IN  vals[FirstMinIndex(vals)]

\* mutants of IsAccepted: no validity filter; <= in place of <
IsAcceptedAlways(y_s, compared_s) == TRUE
IsAcceptedInclusive(y_s, compared_s) == y_s <= compared_s + Den * EPS

\* if y < compared_energy + 1e-5
IsAccepted(y_s, compared_s) == y_s < compared_s + Den * EPS

\* cross_points_with_charges of one name, in the order of combinations()
CrossPointsWithCharges(ec) ==
    LET pairs == Combinations2From(1, Len(ec))
        cand  == [n \in DOMAIN pairs |->
                    LET p1 == ec[pairs[n][1]]
                        p2 == ec[pairs[n][2]]
                    IN  [x |-> CrossX(p1.k, p1.v, p2.k, p2.v),
                         y |-> CrossY(p1.k, p1.v, p2.k, p2.v),
                         c1 |-> p1.k, c2 |-> p2.k]]
        Valid(cp) == IsAccepted(cp.y, ComparedEnergy(ec, cp.x))
    IN  SelectSeq(cand, Valid)

\* mutant of SortedInsert: the list is left in the order of the pairs
SortedInsertAtEnd(sorted, e) == Append(sorted, e)

\* sorted(..., key=lambda z: z[0][0]): stable, ascending in x
SortedInsert(sorted, e) ==
    LET n == Cardinality({i \in DOMAIN sorted : sorted[i].x <= e.x})
    IN  SubSeq(sorted, 1, n) \o <<e>> \o SubSeq(sorted, n + 1, Len(sorted))

RECURSIVE SortedByX(_)
SortedByX(s) ==
    IF s = <<>> THEN <<>>
    ELSE SortedInsert(SortedByX(SubSeq(s, 1, Len(s) - 1)), s[Len(s)])

\* transition_levels[name]
TransitionLevel(ec) == SortedByX(CrossPointsWithCharges(ec))

\* mutant of IsInside: the crossing is not referred to vbm
IsInsideAbsolute(x_s, x_min, x_max, vbm) ==
    Den * x_min < x_s /\ x_s < Den * x_max

\* if x_min < cp[0] - self.vbm < x_max
IsInside(x_s, x_min, x_max, vbm) ==
    Den * x_min < x_s - Den * vbm /\ x_s - Den * vbm < Den * x_max

SetMax(S) == CHOOSE m \in S : \A x \in S : x <= m
SetMin(S) == CHOOSE m \in S : \A x \in S : m <= x

\* sorted(charge_set, reverse=True)
RECURSIVE SortedReverse(_)
SortedReverse(S) ==
    IF S = {} THEN <<>> ELSE <<SetMax(S)>> \o SortedReverse(S \ {SetMax(S)})

\* The second loop of plot_energy for one name with a non-empty
\* lowest_energies[name]: the points of the line, the charges added to
\* charge_set (recorded keeps the order of the add calls), the two boundary
\* markers and the charge labels of the segments.  index_error tells that
\* sorted_charge_set[j] ran past the end of the list.
LineOfName(name, ec, tl, x_min, x_max, vbm) ==
    LET first  == MinEAtEf(ec, Den * (x_min + vbm))
        last   == MinEAtEf(ec, Den * (x_max + vbm))
        Inside(cp) == IsInside(cp.x, x_min, x_max, vbm)
        inner  == SelectSeq(tl, Inside)
        cross_points ==
            <<[x |-> Den * x_min, y |-> first.y]>>
            \o [n \in DOMAIN inner |->
                    [x |-> inner[n].x - Den * vbm, y |-> inner[n].y]]
            \o <<[x |-> Den * x_max, y |-> last.y]>>
        recorded ==
            <<first.charge>>
            \o [n \in DOMAIN inner |->
                    IF inner[n].c1 <= inner[n].c2
                    THEN inner[n].c2 ELSE inner[n].c1]
            \o <<last.charge>>
        charge_set == {recorded[n] : n \in DOMAIN recorded}
        sorted_charge_set == SortedReverse(charge_set)
        n_segments == Len(cross_points) - 1
    IN  [name |-> name,
         cross_points |-> cross_points,
         recorded |-> recorded,
         charge_set |-> charge_set,
         x_min_marker |-> (first.charge < 0),
         x_max_marker |-> (SetMin(charge_set) > 0),
         labels |-> SubSeq(sorted_charge_set, 1,
                           IF n_segments <= Len(sorted_charge_set)
                           THEN n_segments ELSE Len(sorted_charge_set)),
         index_error |-> (n_segments > Len(sorted_charge_set))]

\* mutant of LinesDrawn: a name without energies ends the loop
RECURSIVE LinesDrawnUntilEmpty(_, _, _, _, _, _)
LinesDrawnUntilEmpty(lowest, tls, i, x_min, x_max, vbm) ==
    IF i > Len(lowest) THEN <<>>
    ELSE IF lowest[i].v = <<>> THEN <<>>
    ELSE LET line == LineOfName(lowest[i].k, lowest[i].v, tls[i].v,
                                x_min, x_max, vbm)
         IN  IF line.index_error THEN <<line>>
             ELSE <<line>> \o LinesDrawnUntilEmpty(lowest, tls, i + 1,
                                                   x_min, x_max, vbm)

\* the lines drawn before the call returns or an IndexError ends it
RECURSIVE LinesDrawn(_, _, _, _, _, _)
LinesDrawn(lowest, tls, i, x_min, x_max, vbm) ==
    IF i > Len(lowest) THEN <<>>
    ELSE IF lowest[i].v = <<>>       \* if not lowest_energies[name]: continue
    THEN LinesDrawn(lowest, tls, i + 1, x_min, x_max, vbm)
    ELSE LET line == LineOfName(lowest[i].k, lowest[i].v, tls[i].v,
                                x_min, x_max, vbm)
         IN  IF line.index_error THEN <<line>>
             ELSE <<line>> \o LinesDrawn(lowest, tls, i + 1,
                                         x_min, x_max, vbm)

\* plot_energy(filtering_words, x_range, exclude_unconverged_defects,
\* exclude_shallow_defects): the data set it leaves behind and what it computed;
\* x_range = [given |-> FALSE] is None
PlotEnergy(de, vbm, cbm, fw, x_range, exU, exS) ==
    LET after  == EnergiesAfterFiltering(de, fw, exU, exS)
        lowest == [i \in DOMAIN after |->
                      [k |-> after[i].k, v |-> LowestOfName(after[i].v)]]
        tls    == [i \in DOMAIN lowest |->
                      [k |-> lowest[i].k, v |-> TransitionLevel(lowest[i].v)]]
        x_min  == IF x_range.given THEN x_range.lo ELSE 0
        x_max  == IF x_range.given THEN x_range.hi ELSE cbm - vbm
        lines  == LinesDrawn(lowest, tls, 1, x_min, x_max, vbm)
    IN  [status |-> IF \E n \in DOMAIN lines : lines[n].index_error
                    THEN "IndexError" ELSE "return",
         defect_energies |-> after,
         lowest_energies |-> lowest,
         transition_levels |-> tls,
         x_min |-> x_min, x_max |-> x_max,
         lines |-> lines]

\* --------------------------------------------------- as_dict, json, from_dict
\* A key of a serialized dict is a Python value: an int, a str or None.
IntKey(i) == [t |-> "int", i |-> i, s |-> <<>>]
StrKey(s) == [t |-> "str", i |-> 0, s |-> s]
NoneKey == [t |-> "None", i |-> 0, s |-> <<>>]

\* the annotations of the data sets, and the annotation with given characters
AnnotationNames == {"inward", "null"}
AnnotationKey(a) == IF a = NoneVal THEN NoneKey ELSE StrKey(AnnotationChars(a))
AnnotationOfKey(key) ==
    IF key.t = "None" THEN NoneVal
    ELSE CHOOSE a \in AnnotationNames : AnnotationChars(a) = key.s

\* int(s) of a string of digits with an optional sign
DigitValue(c) == CHOOSE n \in 0..9 : Digits[n + 1] = c
RECURSIVE ParseNat(_)
ParseNat(s) ==
    IF s = <<>> THEN 0
    ELSE 10 * ParseNat(SubSeq(s, 1, Len(s) - 1)) + DigitValue(s[Len(s)])
ParseInt(s) == IF s[1] = "-" THEN -ParseNat(Tail(s)) ELSE ParseNat(s)

\* int(charge) of a key
IntOfKey(key) == IF key.t = "int" THEN key.i ELSE ParseInt(key.s)

\* dict(items): a key that comes twice keeps its first position and its last
\* value
RECURSIVE DictOfItems(_)
DictOfItems(items) ==
    IF items = <<>> THEN <<>>
    ELSE DictPut(DictOfItems(SubSeq(items, 1, Len(items) - 1)),
                 items[Len(items)].k, items[Len(items)].v)

\* DefectEnergy.as_dict and DefectEnergy.from_dict (MSONable)
DefectEnergyAsDict(e) ==
    [class |-> "DefectEnergy", energy |-> e.energy,
     convergence |-> e.convergence, is_shallow |-> e.is_shallow]
DefectEnergyFromDict(v) == DefectEnergy(v.energy, v.convergence, v.is_shallow)

\* float(v) of a number: the same number
Float(v) == v

\* the comprehension of as_dict over self.defect_energies: the charge as it
\* is, the annotation 'null' turned into None, e.as_dict()
AsDictEnergies(de) ==
    LET Same(item) == item.k
        AnnKey(item) == IF item.k = "null" THEN NoneKey
                        ELSE AnnotationKey(item.k)
        EDict(item) == DefectEnergyAsDict(item.v)
        ByAnn(item) == DictOfItems([n \in DOMAIN item.v |->
            [k |-> AnnKey(item.v[n]), v |-> EDict(item.v[n])]])
        ChargeKey(item) == IntKey(item.k)
        ByCharge(item) == DictOfItems([m \in DOMAIN item.v |->
            [k |-> ChargeKey(item.v[m]), v |-> ByAnn(item.v[m])]])
    IN  DictOfItems([l \in DOMAIN de |->
            [k |-> Same(de[l]), v |-> ByCharge(de[l])]])

\* a side table as as_dict passes it on: self.multiplicity itself
AsDictRaw(table) ==
    LET Same(item) == item.k
        AnnKey(item) == AnnotationKey(item.k)
        Value(item) == item.v
        ByAnn(item) == DictOfItems([n \in DOMAIN item.v |->
            [k |-> AnnKey(item.v[n]), v |-> Value(item.v[n])]])
        ChargeKey(item) == IntKey(item.k)
        ByCharge(item) == DictOfItems([m \in DOMAIN item.v |->
            [k |-> ChargeKey(item.v[m]), v |-> ByAnn(item.v[m])]])
    IN  DictOfItems([l \in DOMAIN table |->
            [k |-> Same(table[l]), v |-> ByCharge(table[l])]])

\* as_dict
AsDict(obj) ==
    [defect_energies |-> AsDictEnergies(obj.defect_energies),
     multiplicity |-> AsDictRaw(obj.multiplicity),
     magnetization |-> AsDictRaw(obj.magnetization),
     vbm |-> obj.vbm, cbm |-> obj.cbm]

\* convert_str_in_dict(d, value_type): int(charge), None for the annotation
\* "null"; the result holds Python values, so the keys go back to the form of
\* the data set
ConvertStrInDict(table, value_type) ==
    LET Same(item) == item.k
        AnnKey(item) ==
            IF item.k.t = "str" /\ item.k.s = AnnotationChars("null")
            THEN NoneVal ELSE AnnotationOfKey(item.k)
        Value(item) == IF value_type = "float" THEN Float(item.v)
                       ELSE DefectEnergyFromDict(item.v)
        ByAnn(item) == DictOfItems([n \in DOMAIN item.v |->
            [k |-> AnnKey(item.v[n]), v |-> Value(item.v[n])]])
        ChargeKey(item) == IntOfKey(item.k)
        ByCharge(item) == DictOfItems([m \in DOMAIN item.v |->
            [k |-> ChargeKey(item.v[m]), v |-> ByAnn(item.v[m])]])
    IN  DictOfItems([l \in DOMAIN table |->
            [k |-> Same(table[l]), v |-> ByCharge(table[l])]])

\* from_dict
FromDict(dict) ==
    [defect_energies |-> ConvertStrInDict(dict.defect_energies,
                                          "DefectEnergy.from_dict"),
     multiplicity |-> ConvertStrInDict(dict.multiplicity, "float"),
     magnetization |-> ConvertStrInDict(dict.magnetization, "float"),
     vbm |-> dict.vbm, cbm |-> dict.cbm]

\* a key as json.dump writes it and the loader reads it back: always a str
JsonKey(key) ==
    CASE key.t = "int" -> StrKey(IntStr(key.i))
      [] key.t = "None" -> StrKey(AnnotationChars("null"))
      [] OTHER -> key

\* a table of a dict written by to_json_file (json.dump) and read back
JsonTable(table) ==
    LET Same(item) == item.k
        Key(item) == JsonKey(item.k)
        Value(item) == item.v
        ByAnn(item) == DictOfItems([n \in DOMAIN item.v |->
            [k |-> Key(item.v[n]), v |-> Value(item.v[n])]])
        ByCharge(item) == DictOfItems([n \in DOMAIN item.v |->
            [k |-> Key(item.v[n]), v |-> ByAnn(item.v[n])]])
    IN  DictOfItems([l \in DOMAIN table |->
            [k |-> Same(table[l]), v |-> ByCharge(table[l])]])

JsonDumpLoad(dict) ==
    [defect_energies |-> JsonTable(dict.defect_energies),
     multiplicity |-> JsonTable(dict.multiplicity),
     magnetization |-> JsonTable(dict.magnetization),
     vbm |-> dict.vbm, cbm |-> dict.cbm]

\* -------------------------------------------------------------- select_defects
\* mutant of CandidateChargeSet: the remainder of a negative odd i taken as -1
CandidateChargeSetTruncated(i) ==
    IF i >= 0
    THEN (0..i) \cup (IF i % 2 = 1 THEN {-1} ELSE {})
    ELSE (i..0) \cup (IF -((-i) % 2) = 1 THEN {1} ELSE {})

\* candidate_charge_set(i)
CandidateChargeSet(i) ==
    IF i >= 0
    THEN (0..i) \cup (IF i % 2 = 1 THEN {-1} ELSE {})
    ELSE (i..0) \cup (IF i % 2 = 1 THEN {1} ELSE {})

\* DefectName.from_str(string): the class DefectName defines no from_str
\* (only its subclass SimpleDefectName does), so looking the attribute up on
\* DefectName raises AttributeError before the string is read
DefectNameFromStr(string) == [error |-> "AttributeError"]

\* "if keywords:": None, "" and [] are falsy
Truthy(keywords) == keywords.given /\ keywords.pats # <<>>

\* the body of the loop of select_defects for one name: the charges it
\* leaves for the name, or the exception that ends the call
SelectForName(name, charges, keywords, included, excluded, specified) ==
    IF specified # <<>>
    THEN [error |-> DefectNameFromStr(specified[1]).error, charges |-> charges]
    ELSE IF excluded # <<>>
    THEN [error |-> DefectNameFromStr(excluded[1]).error, charges |-> charges]
    ELSE IF included # <<>>
    THEN [error |-> DefectNameFromStr(included[1]).error, charges |-> charges]
    ELSE IF Truthy(keywords)
    THEN [error |-> "none",
          charges |-> {c \in charges :
                          IsNameMatched(name, c, NoneVal, keywords)}]
    ELSE [error |-> "none", charges |-> charges]

\* select_defects: the loop over defect_set.items() from the i-th name on;
\* the charges are replaced in the defect_set that was passed in
RECURSIVE SelectLoop(_, _, _, _, _, _)
SelectLoop(defect_set, i, keywords, included, excluded, specified) ==
    IF i > Len(defect_set) THEN [status |-> "return", defect_set |-> defect_set]
    ELSE LET r == SelectForName(defect_set[i].k, defect_set[i].v, keywords,
                                included, excluded, specified)
         IN  IF r.error # "none"
             THEN [status |-> r.error, defect_set |-> defect_set]
             ELSE SelectLoop([defect_set EXCEPT ![i].v = r.charges], i + 1,
                             keywords, included, excluded, specified)

SelectDefects(defect_set, keywords, included, excluded, specified) ==
    SelectLoop(defect_set, 1, keywords, included, excluded, specified)

\* --------------------------------------------- structures and defect entries
\* A structure is the list of its sites, a site is [element, coords]; coords
\* is a label that tells the sites apart, and atom indices begin from 0.

\* None in a list of atom indices
NoneAtom == -1

\* list(range(n))
Range(n) == [k \in 1..n |-> k - 1]

\* list.pop(o) of a list that is longer than o
ListPop(list, o) == SubSeq(list, 1, o) \o SubSeq(list, o + 2, Len(list))

\* list.insert(i, x): an index past the end appends
ListInsert(list, i, x) ==
    LET n == IF i > Len(list) THEN Len(list) ELSE i
    IN  SubSeq(list, 1, n) \o <<x>> \o SubSeq(list, n + 1, Len(list))

RECURSIVE SeqSum(_)
SeqSum(s) == IF s = <<>> THEN 0 ELSE s[1] + SeqSum(Tail(s))

\* get_num_atoms_for_elements: the lengths of the runs of equal symbols
RECURSIVE GetNumAtomsForElements(_)
GetNumAtomsForElements(structure) ==
    IF structure = <<>> THEN <<>>
    ELSE LET rest == GetNumAtomsForElements(Tail(structure))
         IN  IF Len(structure) >= 2
                /\ structure[1].element = structure[2].element
             THEN <<rest[1] + 1>> \o Tail(rest)
             ELSE <<1>> \o rest

RECURSIVE PopAll(_, _)
PopAll(mapping, indices) ==
    IF indices = <<>> THEN mapping
    ELSE PopAll(ListPop(mapping, indices[1]), Tail(indices))

RECURSIVE InsertNoneAll(_, _)
InsertNoneAll(mapping, indices) ==
    IF indices = <<>> THEN mapping
    ELSE InsertNoneAll(ListInsert(mapping, indices[1], NoneAtom),
                       Tail(indices))

\* DefectEntry.atom_mapping_to_perfect: removed_atoms is a dict keyed by the
\* removed indices, inserted_atoms a list of the inserted indices
AtomMappingToPerfect(entry) ==
    LET total_nions ==
            SeqSum(GetNumAtomsForElements(entry.initial_structure))
            - Len(entry.inserted_atoms) + Len(entry.removed_atoms)
        mapping == Range(total_nions)
        popped  == PopAll(mapping, SortedReverse(DictKeys(entry.removed_atoms)))
    IN  InsertNoneAll(popped,
                      SortedReverse({entry.inserted_atoms[n] :
                                        n \in DOMAIN entry.inserted_atoms}))

\* first_appearing_index(structure, element): the index of the first site of
\* the element, 0 when the structure has no site of it
FirstAppearingIndex(structure, element) ==
    IF \E n \in DOMAIN structure : structure[n].element = element
    THEN SetMin({n \in DOMAIN structure : structure[n].element = element}) - 1
    ELSE 0

\* mutant of ShiftedIndices: a record at the index itself is not moved
ShiftedIndicesAfter(records, index) ==
    [k \in DOMAIN records |->
        IF records[k].index > index
        THEN [records[k] EXCEPT !.index = @ + 1] ELSE records[k]]

\* "The atom indices locating after k need to be incremented."
ShiftedIndices(records, index) ==
    [k \in DOMAIN records |->
        IF records[k].index >= index
        THEN [records[k] EXCEPT !.index = @ + 1] ELSE records[k]]

\* the loop of insert_atoms from the n-th atom on
RECURSIVE InsertAtomsLoop(_, _, _, _)
InsertAtomsLoop(inserted_structure, with_indices, inserted_atoms, n) ==
    IF n > Len(inserted_atoms)
    THEN [structure |-> inserted_structure, inserted_atoms |-> with_indices]
    ELSE LET atom  == inserted_atoms[n]
             index == FirstAppearingIndex(inserted_structure, atom.element)
         IN  InsertAtomsLoop(
                 ListInsert(inserted_structure, index,
                            [element |-> atom.element, coords |-> atom.coords]),
                 Append(ShiftedIndices(with_indices, index),
                        [element |-> atom.element, index |-> index,
                         coords |-> atom.coords]),
                 inserted_atoms, n + 1)

\* insert_atoms works on structure.copy(): input is the structure that was
\* passed in, as it is after the call
InsertAtoms(structure, inserted_atoms) ==
    LET r == InsertAtomsLoop(structure, <<>>, inserted_atoms, 1)
    IN  [input |-> structure, structure |-> r.structure,
         inserted_atoms |-> r.inserted_atoms]

\* Structure.remove_sites(indices)
RemoveSites(structure, indices) ==
    LET Kept(n) == \A k \in DOMAIN indices : indices[k] # n - 1
        RECURSIVE Keep(_)
        Keep(n) == IF n > Len(structure) THEN <<>>
                   ELSE (IF Kept(n) THEN <<structure[n]>> ELSE <<>>)
                        \o Keep(n + 1)
    IN  Keep(1)

\* changes_of_num_elements[element] += n on a defaultdict(int)
DefaultDictAdd(dd, key, n) ==
    IF DictHas(dd, key) THEN DictPut(dd, key, DictGet(dd, key) + n)
    ELSE DictPut(dd, key, 0 + n)

RECURSIVE RemovedLoop(_, _, _, _, _)
RemovedLoop(structure, indices, n, removed_atoms, changes) ==
    IF n > Len(indices)
    THEN [removed_atoms |-> removed_atoms, changes |-> changes]
    ELSE LET index == indices[n]
             site  == structure[index + 1]
         IN  RemovedLoop(structure, indices, n + 1,
                         Append(removed_atoms,
                                [element |-> site.element, index |-> index,
                                 coords |-> site.coords]),
                         DefaultDictAdd(changes, site.element, -1))

RECURSIVE InsertedChanges(_, _)
InsertedChanges(inserted_atoms, changes) ==
    IF inserted_atoms = <<>> THEN changes
    ELSE InsertedChanges(Tail(inserted_atoms),
                         DefaultDictAdd(changes, inserted_atoms[1].element, -1))

\* DefectInitialSetting._complex_set: the loop over self.complex_defects from
\* the i-th item on; changes_of_num_elements is made once, before the loop
RECURSIVE ComplexSetLoop(_, _, _, _, _)
ComplexSetLoop(structure, complex_defects, i, defect_set, changes) ==
    IF i > Len(complex_defects) THEN defect_set
    ELSE LET complex_defect == complex_defects[i].v
             removed  == RemovedLoop(structure,
                                     complex_defect.removed_atom_indices, 1,
                                     <<>>, changes)
             inserted == InsertAtoms(
                             RemoveSites(structure,
                                         complex_defect.removed_atom_indices),
                             complex_defect.inserted_atoms)
             after    == InsertedChanges(inserted.inserted_atoms,
                                         removed.changes)
         IN  ComplexSetLoop(
                 structure, complex_defects, i + 1,
                 DictPut(defect_set, complex_defects[i].k,
                         [initial_structure |-> inserted.structure,
                          removed_atoms |-> removed.removed_atoms,
                          inserted_atoms |-> inserted.inserted_atoms,
                          changes_of_num_elements |-> after]),
                 after)

ComplexSet(structure, complex_defects) ==
    ComplexSetLoop(structure, complex_defects, 1, <<>>, <<>>)

\* ================================================================ state machine
VARIABLES
    defect_energies,  \* self.defect_energies: name -> charge -> annotation -> DefectEnergy
    vbm,              \* self.vbm
    cbm,              \* self.cbm
    multiplicity,     \* self.multiplicity: name -> charge -> annotation -> number
    magnetization,    \* self.magnetization: name -> charge -> annotation -> number
    d,                \* the dict that as_dict returned, as it is now
    defect_set,       \* the defect_set given to select_defects: name -> charges
    select_result,    \* how the latest select_defects call ended
    call,             \* the latest call and its arguments
    u_result,         \* what the latest call ended in, if it was u
    plot_result,      \* what the latest call computed, if it was plot_energy
    structure,        \* self.structure of the DefectInitialSetting: the perfect supercell
    complex_defects,  \* self.complex_defects: name -> ComplexDefect
    returned          \* what the latest call of the input maker returned

vars == <<defect_energies, vbm, cbm, multiplicity, magnetization, d,
          defect_set, select_result, call, u_result, plot_result,
          structure, complex_defects, returned>>

None_ == [given |-> FALSE, list |-> <<>>, pats |-> <<>>, lo |-> 0, hi |-> 0]
Words(pats) == [given |-> TRUE, list |-> <<>>, pats |-> pats, lo |-> 0, hi |-> 0]
Annotations(list) ==
    [given |-> TRUE, list |-> list, pats |-> <<>>, lo |-> 0, hi |-> 0]
XRange(lo, hi) ==
    [given |-> TRUE, list |-> <<>>, pats |-> <<>>, lo |-> lo, hi |-> hi]

NoCall == [op |-> "none", name |-> "", charges |-> <<>>, annotations |-> None_,
           filtering_words |-> None_, x_range |-> None_,
           keywords |-> None_, included |-> <<>>, excluded |-> <<>>,
           specified_defects |-> <<>>,
           exclude_unconverged_defects |-> TRUE,
           exclude_shallow_defects |-> TRUE,
           i |-> 0, inserted_atoms |-> <<>>, entry |-> <<>>, defects |-> <<>>]
NoUResult == UOtherError("none")
NoPlotResult == [status |-> "none", defect_energies |-> <<>>,
                 lowest_energies |-> <<>>, transition_levels |-> <<>>,
                 x_min |-> 0, x_max |-> 0, lines |-> <<>>]

Defect(name, charge, annotation, energy, convergence, is_shallow) ==
    [name |-> name, charge |-> charge, annotation |-> annotation,
     energy |-> energy, convergence |-> convergence,
     is_shallow |-> is_shallow,
     num_equiv_sites |-> 8, initial_nsymop |-> 48, final_nsymop |-> 48,
     total_magnetization |-> 0]

\* ---- the lists of defects that from_objects is given
\* keys in the order of the defect directories of a calculation
MasterKeys ==
    << <<"Mg_i1", 0, NoneVal>>,  <<"Va_O1", 2, "inward">>,
       <<"Va_O1", 1, NoneVal>>,  <<"Va_O1", 2, NoneVal>>,
       <<"Va_O1", 0, NoneVal>>,  <<"Va_O1", 3, NoneVal>> >>

\* a window of MasterKeys; every defect has an energy of 1..MaxLevel and at
\* most one defect is shallow or unconverged
ListedDefects ==
    UNION { { [n \in 1..len |->
                 LET key == MasterKeys[i + n - 1]
                 IN  Defect(key[1], key[2], key[3], EV5(es[n]),
                            ~(f = n /\ kind = "unconverged"),
                            f = n /\ kind = "shallow")] :
              es \in [1..len -> 1..MaxLevel], f \in 0..len,
              kind \in {"shallow", "unconverged"} } :
            len \in (MaxDefects - 1)..MaxDefects,
            i \in 1..(Len(MasterKeys) - MaxDefects + 1) }

\* worked examples: the lower envelope of {+1: 0.5, 0: 1.5, -1: 4.0} eV and
\* the ladders [2.0, 1.2, 2.0] eV and [2.0, 2.5, 2.0] eV of the charges 0, 1, 2
Plain(name, charge, energy) ==
    Defect(name, charge, NoneVal, energy, TRUE, FALSE)
EnvelopeExample ==
    << Plain("Va_O1", 1, EV5(50000)), Plain("Va_O1", 0, EV5(150000)),
       Plain("Va_O1", -1, EV5(400000)) >>
StableLadder ==
    << Plain("Va_O1", 0, EV5(200000)), Plain("Va_O1", 1, EV5(120000)),
       Plain("Va_O1", 2, EV5(200000)) >>
NegativeULadder ==
    << Plain("Va_O1", 0, EV5(200000)), Plain("Va_O1", 1, EV5(250000)),
       Plain("Va_O1", 2, EV5(200000)) >>

\* ---- envelope data sets: one name, distinct charges in any order, one
\* converged, deep record per charge
EnvCharges == (-MaxCharge)..MaxCharge
ChargeOrders ==
    UNION { { cs \in [1..n -> EnvCharges] :
                \A a, b \in 1..n : a # b => cs[a] # cs[b] } :
            n \in 1..MaxLines }
EnvDefects ==
    UNION { { [n \in DOMAIN cs |-> Plain("Va_O1", cs[n], EV5(es[n]))] :
              es \in [DOMAIN cs -> 0..MaxEnergy] } : cs \in ChargeOrders }

\* the same with energies that differ by less than the tolerance
SubEpsDefects ==
    UNION { { [n \in DOMAIN cs |-> Plain("Va_O1", cs[n], es[n])] :
              es \in [DOMAIN cs -> 0..(EPS - 1)] } : cs \in ChargeOrders }

\* no dict has been made yet
NoDict == [given |-> FALSE, dict |-> <<>>]
SomeDict(dict) == [given |-> TRUE, dict |-> dict]

\* the object that from_objects returns for a list of defects
BuiltFrom(defects) ==
    /\ defect_energies = FromObjects(defects)
    /\ multiplicity = FromObjectsMultiplicity(defects)
    /\ magnetization = FromObjectsMagnetization(defects)

\* no input maker at hand
NoSetting ==
    /\ structure = <<>>
    /\ complex_defects = <<>>

InitCommon ==
    /\ returned = <<>>
    /\ d = NoDict
    /\ select_result = "none"
    /\ call = NoCall
    /\ u_result = NoUResult
    /\ plot_result = NoPlotResult

Init ==
    /\ \/ /\ \E defects \in ListedDefects : BuiltFrom(defects)
          /\ vbm = EV5(-1)
          /\ cbm = EV5(1)
       \/ /\ \E defects \in {EnvelopeExample, StableLadder, NegativeULadder} :
                BuiltFrom(defects)
          /\ vbm = 0
          /\ cbm = EV5(300000)
    /\ defect_set = <<>>
    /\ NoSetting
    /\ InitCommon

InitEnv ==
    /\ \/ /\ \E defects \in EnvDefects : BuiltFrom(defects)
          /\ vbm \in {0, EV5(1)}
          /\ cbm = vbm + EV5(EnvGap)
       \/ /\ \E defects \in SubEpsDefects : BuiltFrom(defects)
          /\ vbm \in {-1, 0}
          /\ cbm = vbm + EnvGap
    /\ defect_set = <<>>
    /\ NoSetting
    /\ InitCommon

\* ---- the calls
CallU(name, charges, annotations) ==
    /\ u_result' = U(defect_energies, name, charges, annotations)
    /\ plot_result' = NoPlotResult
    /\ call' = [NoCall EXCEPT !.op = "u", !.name = name,
                              !.charges = charges,
                              !.annotations = annotations]
    /\ UNCHANGED <<defect_energies, vbm, cbm, multiplicity, magnetization, d,
                   defect_set, select_result,
                   structure, complex_defects, returned>>

CallPlotEnergy(fw, x_range, exU, exS) ==
    LET r == PlotEnergy(defect_energies, vbm, cbm, fw, x_range, exU, exS)
    IN  /\ defect_energies' = r.defect_energies
        /\ plot_result' = r
        /\ u_result' = NoUResult
        /\ call' = [NoCall EXCEPT !.op = "plot_energy",
                                  !.filtering_words = fw,
                                  !.x_range = x_range,
                                  !.exclude_unconverged_defects = exU,
                                  !.exclude_shallow_defects = exS]
        /\ UNCHANGED <<vbm, cbm, multiplicity, magnetization, d, defect_set,
                       select_result, structure, complex_defects, returned>>

\* ---- arguments of the calls
ChargeLists == { <<0, 1, 2>>, <<1, 2, 3>>, <<0, 1, 3>>, <<2, 1, 0>>, <<0, 1>> }
AnnotationLists ==
    { None_, Annotations(<<NoneVal, NoneVal, NoneVal>>),
      Annotations(<<NoneVal, NoneVal, "inward">>) }
UArguments ==
    ({"Va_O1"} \X ChargeLists \X AnnotationLists)
    \cup ({"Mg_i1"} \X {<<0, 1, 2>>}
            \X {None_, Annotations(<<NoneVal, NoneVal, NoneVal>>)})
KeywordLists ==
    { None_, Words(<< <<"_", "i">> >>),
      Words(<< NameChars("Va_O1") \o <<"_", "1">> >>), Words(<<>>) }

Next ==
    \/ \E args \in UArguments : CallU(args[1], args[2], args[3])
    \/ \E fw \in KeywordLists, exU \in BOOLEAN, exS \in BOOLEAN :
          CallPlotEnergy(fw, None_, exU, exS)

Spec == Init /\ [][Next]_vars

EnvChargeLists == { <<q, q + 1, q + 2>> : q \in (-MaxCharge)..(MaxCharge - 2) }
EnvXRanges ==
    { None_, XRange(EV5(-(MaxEnergy + 1)), EV5(MaxEnergy + 1)),
      XRange(EV5(-1), EV5(1)), XRange(0, EV5(MaxEnergy)) }

NextEnv ==
    \/ \E charges \in EnvChargeLists : CallU("Va_O1", charges, None_)
    \/ \E x_range \in EnvXRanges : CallPlotEnergy(None_, x_range, TRUE, TRUE)

SpecEnv == InitEnv /\ [][NextEnv]_vars

\* ---- serialization: data sets with negative and two-digit charges and with
\* the annotations None, "inward" and "null"; the n-th defect has the energy n
DictCharges == {-1, 0, 12}
DictAnnotations == {NoneVal} \cup AnnotationNames
DictDefects ==
    UNION { { [n \in 1..len |->
                 [Plain("Va_O1", cs[n], n) EXCEPT !.annotation = as[n]]] :
              cs \in [1..len -> DictCharges],
              as \in [1..len -> DictAnnotations] } :
            len \in 1..MaxRecords }

InitDict ==
    /\ \E defects \in DictDefects : BuiltFrom(defects)
    /\ vbm = 0
    /\ cbm = 1
    /\ defect_set = <<>>
    /\ NoSetting
    /\ InitCommon

\* self, as as_dict reads it and from_dict builds it
Self ==
    [defect_energies |-> defect_energies, multiplicity |-> multiplicity,
     magnetization |-> magnetization, vbm |-> vbm, cbm |-> cbm]

\* d = self.as_dict()
CallAsDict ==
    /\ d' = SomeDict(AsDict(Self))
    /\ call' = [NoCall EXCEPT !.op = "as_dict"]
    /\ u_result' = NoUResult
    /\ plot_result' = NoPlotResult
    /\ UNCHANGED <<defect_energies, vbm, cbm, multiplicity, magnetization,
                   defect_set, select_result,
                   structure, complex_defects, returned>>

\* d written by to_json_file and read back as a dict
CallJson ==
    /\ d.given
    /\ d' = SomeDict(JsonDumpLoad(d.dict))
    /\ call' = [NoCall EXCEPT !.op = "json"]
    /\ u_result' = NoUResult
    /\ plot_result' = NoPlotResult
    /\ UNCHANGED <<defect_energies, vbm, cbm, multiplicity, magnetization,
                   defect_set, select_result,
                   structure, complex_defects, returned>>

\* self = DefectEnergies.from_dict(d)
CallFromDict ==
    /\ d.given
    /\ LET obj == FromDict(d.dict)
       IN  /\ defect_energies' = obj.defect_energies
           /\ multiplicity' = obj.multiplicity
           /\ magnetization' = obj.magnetization
           /\ vbm' = obj.vbm
           /\ cbm' = obj.cbm
    /\ call' = [NoCall EXCEPT !.op = "from_dict"]
    /\ u_result' = NoUResult
    /\ plot_result' = NoPlotResult
    /\ UNCHANGED <<d, defect_set, select_result,
                   structure, complex_defects, returned>>

NextDict == CallAsDict \/ CallJson \/ CallFromDict

SpecDict == InitDict /\ [][NextDict]_vars

\* ---- select_defects: a defect_set of two names, each with the candidate
\* charges of an oxidation state
SelectNames == {<<"Va_O1", "Va_O10">>, <<"Va_O1", "Mg_i1">>, <<"Mg_i1", "Va_O1">>}
CandidateSets == {CandidateChargeSet(i) : i \in (-MaxOxidation)..MaxOxidation}
DefectSets ==
    { [n \in 1..2 |-> [k |-> names[n], v |-> cs[n]]] :
        names \in SelectNames, cs \in [1..2 -> CandidateSets] }

\* a full defect name name_charge, as a string
FullName(name, charge) == NameChars(name) \o <<"_">> \o IntStr(charge)

InitSelect ==
    /\ defect_set \in DefectSets
    /\ defect_energies = <<>>
    /\ multiplicity = <<>>
    /\ magnetization = <<>>
    /\ vbm = 0
    /\ cbm = 0
    /\ NoSetting
    /\ InitCommon

\* defects = select_defects(defect_set, keywords, included, excluded,
\* specified_defects)
CallSelectDefects(keywords, included, excluded, specified) ==
    LET r == SelectDefects(defect_set, keywords, included, excluded, specified)
    IN  /\ defect_set' = r.defect_set
        /\ select_result' = r.status
        /\ call' = [NoCall EXCEPT !.op = "select_defects",
                                  !.keywords = keywords,
                                  !.included = included,
                                  !.excluded = excluded,
                                  !.specified_defects = specified]
        /\ u_result' = NoUResult
        /\ plot_result' = NoPlotResult
        /\ UNCHANGED <<defect_energies, vbm, cbm, multiplicity, magnetization,
                       d, structure, complex_defects, returned>>

SelectKeywords ==
    { None_, Words(<<>>), Words(<< FullName("Va_O1", 1) >>),
      Words(<< <<"_", "i">> >>),
      Words(<< FullName("Va_O1", 0), FullName("Mg_i1", -1) >>) }
FullNameLists ==
    { <<>>, << FullName("Va_O1", 1) >>,
      << FullName("Va_O10", 2), FullName("Va_O1", 1) >> }

NextSelect ==
    \E keywords \in SelectKeywords, included \in FullNameLists,
       excluded \in FullNameLists, specified \in FullNameLists :
        CallSelectDefects(keywords, included, excluded, specified)

SpecSelect == InitSelect /\ [][NextSelect]_vars

\* ---- the input maker: a perfect supercell of Mg and O sites in the order
\* of a POSCAR (the n-th site has the coords n)
Site(element, coords) == [element |-> element, coords |-> coords]
Supercell(m, n) ==
    [k \in 1..(m + n) |-> Site(IF k <= m THEN "Mg" ELSE "O", k)]
Supercells == {Supercell(m, n) : m \in 0..MaxAtoms, n \in 1..MaxAtoms}

\* lists of atoms to insert; the n-th atom of a list has the coords 100 + n
InsertedElements == {"Mg", "O", "Al"}
InsertedLists ==
    UNION { { [n \in 1..len |-> Site(es[n], 100 + n)] :
              es \in [1..len -> InsertedElements] } :
            len \in 0..MaxInserted }

\* lists of at most MaxInserted different indices below n, ascending
IndexLists(n) ==
    UNION { { idx \in [1..len -> 0..(n - 1)] :
                \A a, b \in 1..len : a < b => idx[a] < idx[b] } :
            len \in 0..MaxInserted }

\* self.complex_defects: one complex defect, or two
ComplexDefect(removed_atom_indices, inserted_atoms) ==
    [removed_atom_indices |-> removed_atom_indices,
     inserted_atoms |-> inserted_atoms]
ComplexDefectsOf(s) ==
    LET first  == {ComplexDefect(r, a) :
                      r \in IndexLists(Len(s)), a \in InsertedLists}
        second == {ComplexDefect(<<Len(s) - 1>>, <<Site("Mg", 201)>>)}
    IN  {<<[k |-> "split", v |-> c]>> : c \in first}
        \cup {<<[k |-> "split", v |-> c], [k |-> "divacancy", v |-> e]>> :
                c \in first, e \in second}

\* the DefectEntry of a defect of a defect set: removed_atoms is keyed by the
\* removed indices, inserted_atoms lists the inserted indices
DefectEntry(defect) ==
    [initial_structure |-> defect.initial_structure,
     removed_atoms |-> [n \in DOMAIN defect.removed_atoms |->
                           [k |-> defect.removed_atoms[n].index,
                            v |-> defect.removed_atoms[n].coords]],
     inserted_atoms |-> [n \in DOMAIN defect.inserted_atoms |->
                            defect.inserted_atoms[n].index]]

InitSetting ==
    /\ structure \in Supercells
    /\ complex_defects \in ComplexDefectsOf(structure)
    /\ defect_energies = <<>>
    /\ multiplicity = <<>>
    /\ magnetization = <<>>
    /\ vbm = 0
    /\ cbm = 0
    /\ defect_set = <<>>
    /\ InitCommon

\* defect_set = self._complex_set()
CallComplexSet ==
    /\ returned' = ComplexSet(structure, complex_defects)
    /\ defect_set' = returned'
    /\ call' = [NoCall EXCEPT !.op = "_complex_set"]
    /\ UNCHANGED <<defect_energies, vbm, cbm, multiplicity, magnetization, d,
                   select_result, u_result, plot_result, structure,
                   complex_defects>>

\* DefectEntry(name, **defect_set[name]).atom_mapping_to_perfect
CallAtomMappingToPerfect(name) ==
    /\ DictHas(defect_set, name)
    /\ LET entry == DefectEntry(DictGet(defect_set, name))
       IN  /\ returned' = AtomMappingToPerfect(entry)
           /\ call' = [NoCall EXCEPT !.op = "atom_mapping_to_perfect",
                                     !.name = name, !.entry = entry]
    /\ UNCHANGED <<defect_energies, vbm, cbm, multiplicity, magnetization, d,
                   defect_set, select_result, u_result, plot_result,
                   structure, complex_defects>>

NextSetting ==
    \/ CallComplexSet
    \/ \E name \in {"split", "divacancy"} : CallAtomMappingToPerfect(name)

SpecSetting == InitSetting /\ [][NextSetting]_vars

\* ---- the functions of the input maker that stand alone
InitInsert ==
    /\ structure \in Supercells
    /\ complex_defects = <<>>
    /\ defect_energies = <<>>
    /\ multiplicity = <<>>
    /\ magnetization = <<>>
    /\ vbm = 0
    /\ cbm = 0
    /\ defect_set = <<>>
    /\ InitCommon

\* candidate_charge_set(i)
CallCandidateChargeSet(i) ==
    /\ returned' = CandidateChargeSet(i)
    /\ call' = [NoCall EXCEPT !.op = "candidate_charge_set", !.i = i]
    /\ UNCHANGED <<defect_energies, vbm, cbm, multiplicity, magnetization, d,
                   defect_set, select_result, u_result, plot_result,
                   structure, complex_defects>>

\* insert_atoms(self.structure, inserted_atoms)
CallInsertAtoms(inserted_atoms) ==
    LET r == InsertAtoms(structure, inserted_atoms)
    IN  /\ structure' = r.input
        /\ returned' = [structure |-> r.structure,
                        inserted_atoms |-> r.inserted_atoms]
        /\ call' = [NoCall EXCEPT !.op = "insert_atoms",
                                  !.inserted_atoms = inserted_atoms]
        /\ UNCHANGED <<defect_energies, vbm, cbm, multiplicity, magnetization,
                       d, defect_set, select_result, u_result, plot_result,
                       complex_defects>>

OxidationStates == (-(MaxOxidation + 2))..(MaxOxidation + 2)

NextInsert ==
    \/ \E i \in OxidationStates : CallCandidateChargeSet(i)
    \/ \E inserted_atoms \in InsertedLists : CallInsertAtoms(inserted_atoms)

SpecInsert == InitInsert /\ [][NextInsert]_vars

\* ---- from_objects over lists in which a key may come again
BuildKeys ==
    { <<"Va_O1", 0, NoneVal>>, <<"Va_O1", 0, "inward">>,
      <<"Va_O1", 1, NoneVal>>, <<"Mg_i1", 0, NoneVal>> }

\* a calculation of a key; its energy, its number of equivalent sites and its
\* magnetization differ from one calculation to another
Calculation(key, v) ==
    [Defect(key[1], key[2], key[3], EV5(v), TRUE, FALSE)
        EXCEPT !.num_equiv_sites = 8 * v, !.total_magnetization = v - 1]
Calculations == {Calculation(key, v) : key \in BuildKeys, v \in 1..MaxLevel}
CalculationLists ==
    UNION {[1..len -> Calculations] : len \in 0..MaxRecords}

\* no DefectEnergies object has been made yet
InitBuild ==
    /\ defect_energies = <<>>
    /\ multiplicity = <<>>
    /\ magnetization = <<>>
    /\ vbm = 0
    /\ cbm = 0
    /\ defect_set = <<>>
    /\ NoSetting
    /\ InitCommon

\* DefectEnergies.from_objects(unitcell, perfect, defects, ...): the
\* classmethod that makes the object
CallFromObjects(defects) ==
    /\ call.op = "none"
    /\ defect_energies' = FromObjects(defects)
    /\ multiplicity' = FromObjectsMultiplicity(defects)
    /\ magnetization' = FromObjectsMagnetization(defects)
    /\ call' = [NoCall EXCEPT !.op = "from_objects", !.defects = defects]
    /\ UNCHANGED <<vbm, cbm, d, defect_set, select_result, u_result,
                   plot_result, structure, complex_defects, returned>>

NextBuild == \E defects \in CalculationLists : CallFromObjects(defects)

SpecBuild == InitBuild /\ [][NextBuild]_vars

\* ======================================================================= claims
\* ---- vocabulary of the claims
\* the name has a record for the charge
HasRecord(de, name, c) ==
    /\ DictHas(de, name)
    /\ DictHas(DictGet(de, name), c)
    /\ DictGet(DictGet(de, name), c) # <<>>

\* (q, q + 1, q + 2)
IsLadder(charges) ==
    /\ Len(charges) = 3
    /\ charges[2] = charges[1] + 1
    /\ charges[3] = charges[2] + 1

\* the energies of the annotations of (name, c), and the energy of one of them
EnergiesOf(de, name, c) ==
    LET items == DictGet(DictGet(de, name), c)
    IN  {items[j].v.energy : j \in DOMAIN items}
HasAnnotation(de, name, c, a) ==
    HasRecord(de, name, c) /\ DictHas(DictGet(DictGet(de, name), c), a)
EnergyOf(de, name, c, a) == DictGet(DictGet(DictGet(de, name), c), a).energy
MinEnergyOf(de, name, c) == SetMin(EnergiesOf(de, name, c))

UCalled == call.op = "u"
LadderWithRecords ==
    /\ UCalled
    /\ IsLadder(call.charges)
    /\ \A i \in 1..3 : HasRecord(defect_energies, call.name, call.charges[i])

\* C1: for a name and three charges (q, q+1, q+2) that all have records, u
\* returns U = E(q) + E(q+2) - 2 E(q+1) and the annotation used for each
\* charge: E(c) is the least energy of the annotations of c, each charge on
\* its own, when no annotations are passed, and the energy of the named
\* annotation when annotations are passed; the ladder [2.0, 1.2, 2.0] eV gives
\* 1.6 eV and [2.0, 2.5, 2.0] eV gives -1.0 eV.
C1_UValue ==
    /\ (LadderWithRecords /\ ~call.annotations.given) =>
          LET c == call.charges
              E(i) == MinEnergyOf(defect_energies, call.name, c[i])
          IN  /\ u_result.kind = "return"
              /\ u_result.value = E(1) + E(3) - 2 * E(2)
              /\ Len(u_result.annotations) = 3
              /\ \A i \in 1..3 :
                    /\ HasAnnotation(defect_energies, call.name, c[i],
                                     u_result.annotations[i])
                    /\ EnergyOf(defect_energies, call.name, c[i],
                                u_result.annotations[i]) = E(i)
    /\ (/\ LadderWithRecords
        /\ call.annotations.given
        /\ Len(call.annotations.list) = 3
        /\ \A i \in 1..3 : HasAnnotation(defect_energies, call.name,
                               call.charges[i], call.annotations.list[i])) =>
          LET c == call.charges
              E(i) == EnergyOf(defect_energies, call.name, c[i],
                               call.annotations.list[i])
          IN  /\ u_result.kind = "return"
              /\ u_result.value = E(1) + E(3) - 2 * E(2)
              /\ u_result.annotations = call.annotations.list
    /\ (/\ UCalled /\ call.charges = <<0, 1, 2>> /\ call.name = "Va_O1"
        /\ ~call.annotations.given) =>
          /\ defect_energies = FromObjects(StableLadder)
                => u_result.kind = "return" /\ u_result.value = EV5(160000)
          /\ defect_energies = FromObjects(NegativeULadder)
                => u_result.kind = "return" /\ u_result.value = EV5(-100000)

\* u chose, for some charge of the ladder, an annotation that is not the
\* first one of that charge because its energy is lower
C1_Witness ==
    /\ LadderWithRecords
    /\ ~call.annotations.given
    /\ u_result.kind = "return"
    /\ \E i \in 1..3 :
          LET items == DictGet(DictGet(defect_energies, call.name),
                               call.charges[i])
          IN  /\ Len(items) >= 2
              /\ items[1].v.energy > MinEnergyOf(defect_energies, call.name,
                                                 call.charges[i])
              /\ u_result.annotations[i] # items[1].k

\* C2: u called with a charge list that is not three charges rising in unit
\* steps (wrong length, not increasing, a step other than 1) aborts with the
\* invalid-input error: it returns no U value.
C2_InvalidChargesAbort ==
    (UCalled /\ ~IsLadder(call.charges)) => u_result.kind # "return"

\* C3: when the name has no record for one of the three requested charges, u
\* ends in the charge-not-found error that names the first such charge (the
\* printed message or the key of the KeyError), with or without annotations
\* passed, and returns no U value.  (The name is in the data set, and an
\* annotation passed for a charge that has records is one of its annotations.)
C3_MissingChargeReported ==
    (/\ UCalled
     /\ IsLadder(call.charges)
     /\ DictHas(defect_energies, call.name)
     /\ \E i \in 1..3 :
           ~HasRecord(defect_energies, call.name, call.charges[i])
     /\ call.annotations.given =>
           /\ Len(call.annotations.list) = 3
           /\ \A i \in 1..3 :
                 HasRecord(defect_energies, call.name, call.charges[i]) =>
                    HasAnnotation(defect_energies, call.name, call.charges[i],
                                  call.annotations.list[i])) =>
        LET i0 == SetMin({i \in 1..3 : ~HasRecord(defect_energies, call.name,
                                                   call.charges[i])})
            missing == call.charges[i0]
        IN  /\ u_result.kind = "KeyError"
            /\ \/ u_result.printed /\ u_result.printed_charge = missing
               \/ u_result.key_kind = "charge" /\ u_result.key_charge = missing

\* ---- vocabulary of the envelope claims
Plotted == plot_result.status # "none"

\* F_q(x) = E_q + q x at the Fermi level x_s / Den, times Den
F(line, x_s) == Den * line.v + line.k * x_s

\* the lower envelope by brute force: the least F_q(x) over the charges
StableEnergy(ec, x_s) == SetMin({F(ec[j], x_s) : j \in DOMAIN ec})

\* the Fermi levels, times Den, from below the lowest to above the highest
\* crossing that two lines of a data set can have
EfGrid == (-(Den * EV5(MaxEnergy + 1)))..(Den * EV5(MaxEnergy + 1))

\* the lines of a name in the latest plot_energy call
LinesOf(name) == DictGet(plot_result.lowest_energies, name)
LevelsOf(name) == DictGet(plot_result.transition_levels, name)
PlottedNames == DictKeys(plot_result.lowest_energies)

\* C4: whenever the U value of (q, q+1, q+2) of a name is negative, q+1 is
\* never the stable charge of that name: min_e_at_ef over the same
\* representative energies returns q+1 at no Fermi level.
C4_NegativeUNeverStable ==
    (/\ UCalled
     /\ IsLadder(call.charges)
     /\ ~call.annotations.given
     /\ u_result.kind = "return"
     /\ u_result.value < 0) =>
        LET ec == LowestOfName(DictGet(defect_energies, call.name))
        IN  \A ef_s \in EfGrid : MinEAtEf(ec, ef_s).charge # call.charges[2]

C4_Witness ==
    /\ UCalled
    /\ IsLadder(call.charges)
    /\ u_result.kind = "return"
    /\ u_result.value < 0

\* C5: envelope soundness: for every crossing (x*, y*) that plot_energy
\* accepts as a transition level of a name, no charge line of that name has a
\* value at x* below y* - eps.
C5_EnvelopeSoundness ==
    Plotted =>
        \A name \in PlottedNames :
            LET ec == LinesOf(name)
                tl == LevelsOf(name)
            IN  \A n \in DOMAIN tl, j \in DOMAIN ec :
                    ~(F(ec[j], tl[n].x) < tl[n].y - Den * EPS)

\* an accepted crossing that a third line undercuts by less than eps
C5_Witness ==
    /\ Plotted
    /\ \E name \in PlottedNames :
          \E n \in DOMAIN LevelsOf(name), j \in DOMAIN LinesOf(name) :
              F(LinesOf(name)[j], LevelsOf(name)[n].x) < LevelsOf(name)[n].y

\* the crossing of two lines of an envelope data set: the Fermi level at
\* which they are equal
CrossingX(l1, l2) == CHOOSE x_s \in EfGrid : F(l1, x_s) = F(l2, x_s)

\* the pair of lines a, b of the name has an accepted crossing, and it is the
\* point where the two lines meet
IsLevel(name, a, b) ==
    LET ec == LinesOf(name)
        tl == LevelsOf(name)
    IN  \E n \in DOMAIN tl :
            /\ {tl[n].c1, tl[n].c2} = {ec[a].k, ec[b].k}
            /\ tl[n].x = CrossingX(ec[a], ec[b])
            /\ tl[n].y = F(ec[a], tl[n].x)
            /\ tl[n].y = F(ec[b], tl[n].x)

\* C6 as claimed: for every pair of distinct surviving charges of a name the
\* crossing of their lines is accepted if and only if
\* y* <= stable_energy(x*) + eps.
C6_AcceptedIffWithinEps ==
    Plotted =>
        \A name \in PlottedNames :
            LET ec == LinesOf(name)
            IN  \A a, b \in DOMAIN ec :
                    a < b =>
                       LET x_s == CrossingX(ec[a], ec[b])
                       IN  IsLevel(name, a, b) <=>
                              F(ec[a], x_s) <= StableEnergy(ec, x_s) + Den * EPS

\* C6 amended: for every pair of distinct surviving charges of a name the
\* crossing of their lines (x*, y*) is accepted if and only if
\* y* < stable_energy(x*) + eps; so every crossing on the lower envelope is
\* accepted, and one that lies exactly eps above it is rejected.
C6_AcceptedIffBelowEps ==
    Plotted =>
        \A name \in PlottedNames :
            LET ec == LinesOf(name)
                tl == LevelsOf(name)
            IN  /\ \A a, b \in DOMAIN ec :
                      a < b =>
                         LET x_s == CrossingX(ec[a], ec[b])
                         IN  IsLevel(name, a, b) <=>
                                F(ec[a], x_s) < StableEnergy(ec, x_s) + Den * EPS
                /\ \A n \in DOMAIN tl :
                      \E a, b \in DOMAIN ec :
                          a < b /\ {tl[n].c1, tl[n].c2} = {ec[a].k, ec[b].k}
                /\ Len(tl) <= (Len(ec) * (Len(ec) - 1)) \div 2

\* a crossing exactly eps above the lower envelope, which is rejected, next to
\* an accepted crossing of the same name
C6_Witness ==
    /\ Plotted
    /\ \E name \in PlottedNames :
          LET ec == LinesOf(name)
          IN  /\ LevelsOf(name) # <<>>
              /\ \E a, b \in DOMAIN ec :
                    /\ a < b
                    /\ F(ec[a], CrossingX(ec[a], ec[b]))
                          = StableEnergy(ec, CrossingX(ec[a], ec[b])) + Den * EPS
                    /\ ~IsLevel(name, a, b)

\* ---- the piecewise-linear path of a plotted line, between its points n and
\* n + 1, against the lower envelope; x_s is a Fermi level relative to vbm,
\* times Den.  With dx the width of the segment, PathTimesDx is the value of
\* the path at x_s times dx.
SegmentDx(cp, n) == cp[n + 1].x - cp[n].x
PathTimesDx(cp, n, x_s) ==
    cp[n].y * SegmentDx(cp, n) + (cp[n + 1].y - cp[n].y) * (x_s - cp[n].x)
EnvelopeAt(line, x_s) == StableEnergy(LinesOf(line.name), x_s + Den * vbm)

\* every point of the path, and every point of every segment of non-zero
\* width, satisfies Rel(path value times d, envelope value, d)
PathAgainstEnvelope(Rel(_, _, _)) ==
    \A i \in DOMAIN plot_result.lines :
        LET line == plot_result.lines[i]
            cp   == line.cross_points
        IN  /\ \A n \in DOMAIN cp : Rel(cp[n].y, EnvelopeAt(line, cp[n].x), 1)
            /\ \A n \in 1..(Len(cp) - 1) :
                  \A x_s \in cp[n].x..cp[n + 1].x :
                      SegmentDx(cp, n) > 0 =>
                         Rel(PathTimesDx(cp, n, x_s), EnvelopeAt(line, x_s),
                             SegmentDx(cp, n))

PathEqual(p, e, w) == p = e * w
PathWithinEps(p, e, w) == e * w <= p /\ p < (e + Den * EPS) * w

\* C7 as claimed: at every x of the domain [x_min, x_max] the value of the
\* path that plot_energy assembles equals the least E_q + q x over the
\* charges.
C7_PathEqualsEnvelope == Plotted => PathAgainstEnvelope(PathEqual)

\* C7 amended: at every x of the domain the value of the path is at least the
\* least E_q + q x over the charges and less than eps above it (a crossing
\* accepted within the tolerance is a point of the path).
C7_PathWithinEpsOfEnvelope == Plotted => PathAgainstEnvelope(PathWithinEps)

\* a path with a crossing inside the domain that lies on the envelope and one
\* that lies above it
C7_Witness ==
    /\ Plotted
    /\ \E i \in DOMAIN plot_result.lines :
          LET line == plot_result.lines[i]
              cp   == line.cross_points
          IN  /\ \E n \in 2..(Len(cp) - 1) :
                    cp[n].y = EnvelopeAt(line, cp[n].x)
              /\ \E n \in 2..(Len(cp) - 1) :
                    cp[n].y > EnvelopeAt(line, cp[n].x)

\* the stable charge never increases with the Fermi level
StableChargeNonIncreasing(ec) ==
    \A ef_s \in EfGrid :
        (ef_s + 1) \in EfGrid =>
            MinEAtEf(ec, ef_s).charge >= MinEAtEf(ec, ef_s + 1).charge

\* C8 as claimed: for a name with at least two surviving charges the stable
\* charge is non-increasing as the Fermi level increases, and the charges
\* recorded for x_min, for each accepted crossing in ascending x and for
\* x_max never increase.
C8_RecordedNeverIncrease ==
    Plotted =>
        \A i \in DOMAIN plot_result.lines :
            LET line == plot_result.lines[i]
                ec   == LinesOf(line.name)
            IN  Len(ec) >= 2 =>
                   /\ StableChargeNonIncreasing(ec)
                   /\ \A n \in 1..(Len(line.recorded) - 1) :
                         line.recorded[n] >= line.recorded[n + 1]

\* C8 amended: for a name with at least two surviving charges the stable
\* charge is non-increasing as the Fermi level increases, and of two recorded
\* points that lie on the lower envelope at different x the one at the lower
\* x has the higher or the same charge (crossings at one x, where three or
\* more lines meet, and crossings accepted above the envelope are recorded in
\* the order of the charge pairs).
C8_RecordedOnEnvelope ==
    Plotted =>
        \A i \in DOMAIN plot_result.lines :
            LET line == plot_result.lines[i]
                ec   == LinesOf(line.name)
                cp   == line.cross_points
                OnEnvelope(n) == cp[n].y = EnvelopeAt(line, cp[n].x)
            IN  Len(ec) >= 2 =>
                   /\ StableChargeNonIncreasing(ec)
                   /\ \A m, n \in DOMAIN cp :
                         (/\ m < n
                          /\ cp[m].x < cp[n].x
                          /\ OnEnvelope(m)
                          /\ OnEnvelope(n)) =>
                             line.recorded[m] >= line.recorded[n]

\* a line through two crossings at different x inside the domain
C8_Witness ==
    /\ Plotted
    /\ \E i \in DOMAIN plot_result.lines :
          LET line == plot_result.lines[i]
              cp   == line.cross_points
          IN  /\ Len(LinesOf(line.name)) >= 3
              /\ Len(cp) >= 4
              /\ cp[2].x < cp[3].x
              /\ cp[2].y = EnvelopeAt(line, cp[2].x)
              /\ cp[3].y = EnvelopeAt(line, cp[3].x)
              /\ line.recorded[2] > line.recorded[3]

\* C9: for the charges {+1: 0.5, 0: 1.5, -1: 4.0} eV over the domain [0, 3] eV
\* with the band edge at 0, the stable charge at 0 is +1 with energy 0.5, the
\* stable charge at 3 is -1 with energy 1.0, the transition levels are exactly
\* (1.0, 1.5) of {+1, 0} and (2.5, 1.5) of {0, -1}, and the crossing of
\* {+1, -1} at (1.75, 2.25) is rejected.
EnvelopeExamplePlotted ==
    /\ call.op = "plot_energy"
    /\ defect_energies = FromObjects(EnvelopeExample)
    /\ vbm = 0
    /\ plot_result.x_min = 0
    /\ plot_result.x_max = EV5(300000)

C9_WorkedEnvelope ==
    EnvelopeExamplePlotted =>
        LET tl   == LevelsOf("Va_O1")
            line == plot_result.lines[1]
        IN  /\ Len(plot_result.lines) = 1
            /\ line.recorded[1] = 1
            /\ line.cross_points[1] = [x |-> 0, y |-> Den * EV5(50000)]
            /\ line.recorded[Len(line.recorded)] = -1
            /\ line.cross_points[Len(line.cross_points)]
                  = [x |-> Den * EV5(300000), y |-> Den * EV5(100000)]
            /\ Len(tl) = 2
            /\ tl[1].x = Den * EV5(100000) /\ tl[1].y = Den * EV5(150000)
            /\ {tl[1].c1, tl[1].c2} = {1, 0}
            /\ tl[2].x = Den * EV5(250000) /\ tl[2].y = Den * EV5(150000)
            /\ {tl[2].c1, tl[2].c2} = {0, -1}
            /\ \A n \in DOMAIN tl :
                  /\ {tl[n].c1, tl[n].c2} # {1, -1}
                  /\ tl[n].x # Den * EV5(175000)

C9_Witness ==
    /\ EnvelopeExamplePlotted
    /\ plot_result.status = "return"
    /\ Len(plot_result.lines[1].cross_points) = 4

\* ---- the records of a data set
Records(de) ==
    UNION { UNION { { <<de[i].k, de[i].v[j].k, de[i].v[j].v[n].k>> :
                      n \in DOMAIN de[i].v[j].v } :
                    j \in DOMAIN de[i].v } :
            i \in DOMAIN de }

\* C10: plot_energy filters into a new view and never changes the data set:
\* after a call with any keywords and exclude flags defect_energies holds the
\* same (name, charge, annotation) records as before the call.
C10_PlotKeepsRecords ==
    [][call'.op = "plot_energy" =>
          Records(defect_energies') = Records(defect_energies)]_vars

\* ---- the latest plot_energy call, made once more on the object as it is now
PlotAgain ==
    PlotEnergy(defect_energies, vbm, cbm, call.filtering_words, call.x_range,
               call.exclude_unconverged_defects, call.exclude_shallow_defects)

\* the charges at x_min and at x_max of the lines drawn
BoundaryCharges(r) ==
    [i \in DOMAIN r.lines |->
        [name |-> r.lines[i].name,
         at_x_min |-> r.lines[i].recorded[1],
         at_x_max |-> r.lines[i].recorded[Len(r.lines[i].recorded)]]]

\* C11: determinism: plot_energy run a second time on the same object with
\* the same arguments, right after the first run, gives the same
\* transition-level lists (crossings, charge pairs, order) and the same
\* boundary stable charges for every name.
C11_PlotTwiceSame ==
    Plotted =>
        /\ PlotAgain.transition_levels = plot_result.transition_levels
        /\ BoundaryCharges(PlotAgain) = BoundaryCharges(plot_result)
        /\ PlotAgain.status = plot_result.status

\* the first run dropped every record of a charge from the object that the
\* second run works on, and a name has a transition level
C11_Witness ==
    /\ Plotted
    /\ \E i \in DOMAIN defect_energies :
          \E j \in DOMAIN defect_energies[i].v : defect_energies[i].v[j].v = <<>>
    /\ \E name \in PlottedNames : LevelsOf(name) # <<>>

\* ---- vocabulary of the filtering claims
\* the DefectEnergy of a record <<name, charge, annotation>> of a data set
RecordOf(de, r) == DictGet(DictGet(DictGet(de, r[1]), r[2]), r[3])

\* the canonical string name_charge[_annotation] of a record matches one of
\* the keywords
MatchesKeyword(r, keywords) ==
    \E i \in DOMAIN keywords.pats :
        ReSearch(keywords.pats[i], DefectNameStr(r[1], r[2], r[3]))

\* the condition under which a record survives the filtering of a call c;
\* "no keywords are given" is filtering_words = None (a list of keywords is
\* given also when it is empty, and then no record matches one of them)
Survives(de, r, c) ==
    /\ ~c.filtering_words.given \/ MatchesKeyword(r, c.filtering_words)
    /\ ~(c.exclude_shallow_defects /\ RecordOf(de, r).is_shallow)
    /\ ~(c.exclude_unconverged_defects /\ ~RecordOf(de, r).convergence)

ChargesLeft(energy_by_charge) ==
    LET NonEmpty(item) == item.v # <<>>
    IN  SelectSeq(energy_by_charge, NonEmpty)

\* the first annotation, in iteration order, with the least energy
FirstLeastAnnotation(items) ==
    LET least == SetMin({items[n].v.energy : n \in DOMAIN items})
        first == SetMin({n \in DOMAIN items : items[n].v.energy = least})
    IN  items[first].k

\* C13: for each (name, charge) with at least one surviving annotation exactly
\* one energy takes part in envelope solving, and it is the least energy of
\* the surviving annotations of that (name, charge); on equal energies the
\* first annotation in iteration order is chosen; a (name, charge) with no
\* surviving annotation contributes no line.
C13_OneLeastEnergyPerCharge ==
    Plotted =>
        \A i \in DOMAIN defect_energies :
            LET name == defect_energies[i].k
                left == ChargesLeft(defect_energies[i].v)
                ec   == LinesOf(name)
            IN  /\ Len(ec) = Len(left)
                /\ \A j \in DOMAIN left :
                      /\ ec[j].k = left[j].k
                      /\ ec[j].v = MinEnergyOf(defect_energies, name, left[j].k)
                      /\ ec[j].a = FirstLeastAnnotation(left[j].v)
                /\ \A a, b \in DOMAIN ec : a # b => ec[a].k # ec[b].k
                /\ LevelsOf(name) = TransitionLevel(ec)

\* a charge with two surviving annotations of equal energy, of which the
\* first is chosen, next to a charge with no surviving annotation
C13_Witness ==
    /\ Plotted
    /\ \E i \in DOMAIN defect_energies :
          LET name == defect_energies[i].k
              byc  == defect_energies[i].v
          IN  /\ \E j \in DOMAIN byc : byc[j].v = <<>>
              /\ \E j \in DOMAIN byc :
                    /\ Len(byc[j].v) >= 2
                    /\ byc[j].v[1].v.energy = byc[j].v[2].v.energy
                    /\ \E n \in DOMAIN LinesOf(name) :
                          /\ LinesOf(name)[n].k = byc[j].k
                          /\ LinesOf(name)[n].a = byc[j].v[1].k

\* ---- vocabulary of the round-trip claim
\* the records of a data set with their values
RecordValues(de) ==
    {<<r, RecordOf(de, r)>> : r \in Records(de)}

\* the object read back from as_dict's dict, directly and through JSON
ReadBack == FromDict(AsDict(Self))
ReadBackJson == FromDict(JsonDumpLoad(AsDict(Self)))

\* C14: round trip: for every DefectEnergies object, from_dict(as_dict(d))
\* .as_dict() equals as_dict(d), also when the dict has passed through a form
\* that stringifies the keys: every charge key comes back as the integer it
\* was, an absent annotation (written as "null") comes back as None, and no
\* (name, charge, annotation) record is lost or merged with another.
C14_RoundTrip ==
    [][call'.op = "from_dict" =>
          /\ AsDict(Self') = AsDict(Self)
          /\ RecordValues(defect_energies') = RecordValues(defect_energies)
          /\ Records(multiplicity') = Records(multiplicity)
          /\ Records(magnetization') = Records(magnetization)
          /\ AsDict(ReadBack) = AsDict(Self)
          /\ AsDict(ReadBackJson) = AsDict(Self)]_vars

\* ---- vocabulary of the select_defects claims
SelectCalled == call.op = "select_defects"
ClaimCharges == (-(MaxOxidation + 1))..(MaxOxidation + 1)
ListedIn(list) == {list[n] : n \in DOMAIN list}

\* the charges c for which name_c is an entry of the list
ChargesListed(name, list) ==
    {c \in ClaimCharges : FullName(name, c) \in ListedIn(list)}

\* C15: when select_defects is given a non-empty whitelist
\* (specified_defects), the charges kept for each name are exactly the charges
\* c such that name_c is in the whitelist, whatever keywords, included,
\* excluded and the candidate charges of the name are; an entry for another
\* name (Va_O10_2 for the name Va_O1) selects nothing for this name.
C15_WhitelistExact ==
    (SelectCalled /\ call.specified_defects # <<>>) =>
        /\ select_result = "return"
        /\ \A i \in DOMAIN defect_set :
              defect_set[i].v
                 = ChargesListed(defect_set[i].k, call.specified_defects)

\* C16: in select_defects without a whitelist include overrides exclude: the
\* charges of a name are its candidate charges without the excluded ones and
\* with the included ones (so a name_charge both excluded and included is
\* kept), and with keywords given exactly those of them whose string
\* name_charge matches at least one keyword.
C16_IncludeOverridesExclude ==
    [][(call'.op = "select_defects" /\ call'.specified_defects = <<>>) =>
          /\ select_result' = "return"
          /\ Len(defect_set') = Len(defect_set)
          /\ \A i \in DOMAIN defect_set :
                LET name == defect_set[i].k
                    kept == (defect_set[i].v
                               \ ChargesListed(name, call'.excluded))
                            \cup ChargesListed(name, call'.included)
                IN  /\ defect_set'[i].k = name
                    /\ defect_set'[i].v
                          = IF Truthy(call'.keywords)
                            THEN {c \in kept :
                                    \E n \in DOMAIN call'.keywords.pats :
                                        ReSearch(call'.keywords.pats[n],
                                                 FullName(name, c))}
                            ELSE kept]_vars

\* ---- vocabulary of the degenerate-configuration claim
\* a name of which no charge survives the filtering
IsDropped(name) == LinesOf(name) = <<>>

\* the data set without the names that were dropped
WithoutDropped ==
    LET Left(item) == ~IsDropped(item.k)
    IN  SelectSeq(defect_energies, Left)

\* plot_energy with no filters on the data set without the dropped names
PlotWithoutDropped ==
    PlotEnergy(WithoutDropped, vbm, cbm, None_, call.x_range, FALSE, FALSE)

\* C17: a name of which zero charges survive the filtering is dropped from
\* the diagram without a fatal error, and plot_energy produces the path and
\* the transition levels of every other name exactly as if the dropped name
\* were absent from the data set.
C17_DroppedAsIfAbsent ==
    Plotted =>
        /\ \A name \in PlottedNames :
              IsDropped(name) =>
                 /\ LevelsOf(name) = <<>>
                 /\ \A n \in DOMAIN plot_result.lines :
                       plot_result.lines[n].name # name
        /\ plot_result.lines = PlotWithoutDropped.lines
        /\ plot_result.status = PlotWithoutDropped.status
        /\ \A name \in PlottedNames :
              ~IsDropped(name) =>
                 LevelsOf(name)
                    = DictGet(PlotWithoutDropped.transition_levels, name)

\* the first name of the data set is dropped and a later name is drawn with a
\* transition level
C17_Witness ==
    /\ Plotted
    /\ plot_result.status = "return"
    /\ Len(defect_energies) >= 2
    /\ IsDropped(defect_energies[1].k)
    /\ \E n \in DOMAIN plot_result.lines :
          /\ plot_result.lines[n].name = defect_energies[2].k
          /\ Len(plot_result.lines[n].cross_points) >= 3

\* ---- vocabulary of the segment claims
\* the charge is stable at the Fermi level x_s (relative to vbm, times Den)
IsStableAt(line, charge, x_s) ==
    \E j \in DOMAIN LinesOf(line.name) :
        /\ LinesOf(line.name)[j].k = charge
        /\ F(LinesOf(line.name)[j], x_s + Den * vbm) = EnvelopeAt(line, x_s)

\* C18: the piecewise description of a name has exactly one charge per
\* segment between consecutive path points, and that charge is the stable
\* charge on the interior of the segment, also when the stable charge is tied
\* at x_min or x_max and when three or more lines cross at one point: the
\* label lookup never runs out of charges.
C18_OneStableChargePerSegment ==
    Plotted =>
        /\ plot_result.status = "return"
        /\ \A i \in DOMAIN plot_result.lines :
              LET line == plot_result.lines[i]
                  cp   == line.cross_points
              IN  /\ Len(line.labels) = Len(cp) - 1
                  /\ \A n \in DOMAIN line.labels :
                        \A x_s \in (cp[n].x + 1)..(cp[n + 1].x - 1) :
                            IsStableAt(line, line.labels[n], x_s)

\* stable_charge(x) of a drawn name, ties broken as min_e_at_ef breaks them
StableCharge(line, x) == MinEAtEf(LinesOf(line.name), Den * (x + vbm)).charge

\* C19: for every name on the diagram the x_min marker is emitted if and
\* only if stable_charge(x_min) is negative, and the x_max marker is emitted
\* if and only if stable_charge(x_max) is positive.
C19_MarkersIffStableCharge ==
    Plotted =>
        \A i \in DOMAIN plot_result.lines :
            LET line == plot_result.lines[i]
            IN  /\ line.x_min_marker
                      <=> StableCharge(line, plot_result.x_min) < 0
                /\ line.x_max_marker
                      <=> StableCharge(line, plot_result.x_max) > 0

\* ---- vocabulary of the path-order claim
\* the transition levels of a name that lie strictly inside the domain, in
\* the order of the list, with x relative to vbm
RECURSIVE LevelsInside(_)
LevelsInside(tl) ==
    IF tl = <<>> THEN <<>>
    ELSE LET rest == LevelsInside(SubSeq(tl, 1, Len(tl) - 1))
             last == tl[Len(tl)]
             x    == last.x - Den * vbm
         IN  IF Den * plot_result.x_min < x /\ x < Den * plot_result.x_max
             THEN Append(rest, [x |-> x, y |-> last.y])
             ELSE rest

NonDecreasingX(s) == \A n \in 1..(Len(s) - 1) : s[n].x <= s[n + 1].x

\* C20: for every name the accepted crossings are sorted by Fermi level
\* ascending, and the path is the x_min point, then the accepted crossings
\* inside the domain in ascending x, then the x_max point, so the x
\* coordinates of the path are non-decreasing and run from x_min to x_max;
\* the default domain is [0, cbm - vbm].
C20_PathOrdered ==
    Plotted =>
        /\ ~call.x_range.given =>
              plot_result.x_min = 0 /\ plot_result.x_max = cbm - vbm
        /\ \A j \in DOMAIN plot_result.transition_levels :
              NonDecreasingX(plot_result.transition_levels[j].v)
        /\ \A i \in DOMAIN plot_result.lines :
              LET line == plot_result.lines[i]
                  cp   == line.cross_points
                  tl   == DictGet(plot_result.transition_levels, line.name)
              IN  /\ Len(cp) >= 2
                  /\ cp[1].x = Den * plot_result.x_min
                  /\ cp[Len(cp)].x = Den * plot_result.x_max
                  /\ SubSeq(cp, 2, Len(cp) - 1) = LevelsInside(tl)
                  /\ NonDecreasingX(cp)

\* a line over the default domain with two crossings inside it at different
\* Fermi levels and an accepted crossing outside it
C20_Witness ==
    /\ Plotted
    /\ ~call.x_range.given
    /\ \E i \in DOMAIN plot_result.lines :
          LET line == plot_result.lines[i]
              cp   == line.cross_points
              tl   == DictGet(plot_result.transition_levels, line.name)
          IN  /\ Len(cp) >= 4
              /\ cp[2].x < cp[3].x
              /\ Len(tl) > Len(cp) - 2

\* ---- vocabulary of the single-charge claim
\* the charges of a name with a record that survives the filtering of call c
SurvivingCharges(de, name, c) ==
    {r[2] : r \in {s \in Records(de) : s[1] = name /\ Survives(de, s, c)}}

\* equally spaced Fermi levels of the domain of a plot, both ends included,
\* relative to vbm and times Den
SampledDomain(r) ==
    {Den * r.x_min + (k * Den * (r.x_max - r.x_min)) \div DomainSamples :
        k \in 0..DomainSamples}

\* C21: a name with a single surviving charge has no transition level, a path
\* of exactly the two boundary points, and the same stable charge at every
\* Fermi level of the domain.
C21_SingleCharge ==
    [][call'.op = "plot_energy" =>
          \A name \in DictKeys(defect_energies) :
              \A q \in SurvivingCharges(defect_energies, name, call') :
                  SurvivingCharges(defect_energies, name, call') = {q} =>
                      LET r  == plot_result'
                          ec == DictGet(r.lowest_energies, name)
                      IN  /\ DictGet(r.transition_levels, name) = <<>>
                          /\ \A x_s \in SampledDomain(r) :
                                MinEAtEf(ec, x_s + Den * vbm).charge = q
                          /\ r.status = "return" =>
                                \E i \in DOMAIN r.lines :
                                    /\ r.lines[i].name = name
                                    /\ Len(r.lines[i].cross_points) = 2
                                    /\ r.lines[i].cross_points[1].x
                                          = Den * r.x_min
                                    /\ r.lines[i].cross_points[2].x
                                          = Den * r.x_max
                                    /\ r.lines[i].recorded = <<q, q>>
                                    /\ r.lines[i].labels = <<q>>]_vars

\* a call with a filter that returned and left a name with records of one
\* charge out of several, drawn as a line of two points
C21_Witness ==
    /\ Plotted
    /\ plot_result.status = "return"
    /\ call.filtering_words.given \/ call.exclude_shallow_defects
    /\ \E i \in DOMAIN defect_energies :
          /\ Len(defect_energies[i].v) >= 2
          /\ Cardinality({j \in DOMAIN defect_energies[i].v :
                            defect_energies[i].v[j].v # <<>>}) = 1
          /\ \E n \in DOMAIN plot_result.lines :
                /\ plot_result.lines[n].name = defect_energies[i].k
                /\ Len(plot_result.lines[n].cross_points) = 2

\* ---- vocabulary of the tie-break claim
\* the dicts with the items of ec in another insertion order
Reorderings(ec) ==
    {[i \in DOMAIN ec |-> ec[f[i]]] :
        f \in {g \in [DOMAIN ec -> DOMAIN ec] :
                  \A a, b \in DOMAIN ec : a # b => g[a] # g[b]}}

\* C22: on equal energies of two charges at a Fermi level the stable charge is
\* fixed by a rule that depends only on the set of (charge, energy) pairs, not
\* on the order in which the records were supplied: the same records in
\* another order give the same stable charge at every Fermi level.
C22_StableChargeOrderFree ==
    Plotted =>
        \A name \in PlottedNames :
            \A ec \in Reorderings(LinesOf(name)) :
                \A x_s \in (Den * plot_result.x_min)..(Den * plot_result.x_max) :
                    MinEAtEf(ec, x_s + Den * vbm).charge
                        = MinEAtEf(LinesOf(name), x_s + Den * vbm).charge

\* ---- vocabulary of the division claim
\* the energy of the line of a charge of a drawn name
LineEnergy(name, charge) ==
    LET ec == LinesOf(name)
    IN  ec[CHOOSE j \in DOMAIN ec : ec[j].k = charge].v

\* C23: within one name of the filtered view every charge occurs at most
\* once, so the crossing computation never divides by q1 - q2 = 0, and every
\* transition level has well-defined, finite coordinates: the crossing of the
\* lines of its two different charges.
C23_DistinctChargesFiniteLevels ==
    Plotted =>
        \A name \in PlottedNames :
            /\ \A a, b \in DOMAIN LinesOf(name) :
                  a # b => LinesOf(name)[a].k # LinesOf(name)[b].k
            /\ \A n \in DOMAIN LevelsOf(name) :
                  LET t  == LevelsOf(name)[n]
                      e1 == LineEnergy(name, t.c1)
                      e2 == LineEnergy(name, t.c2)
                  IN  /\ t.c1 # t.c2
                      /\ t.x * (t.c1 - t.c2) = -(Den * (e1 - e2))
                      /\ t.y * (t.c1 - t.c2) = Den * (t.c1 * e2 - t.c2 * e1)

\* two surviving records of one charge of a name (two annotations) and a
\* transition level of that charge
C23_Witness ==
    /\ Plotted
    /\ \E i \in DOMAIN defect_energies :
          \E j \in DOMAIN defect_energies[i].v :
              /\ Len(defect_energies[i].v[j].v) >= 2
              /\ \E n \in DOMAIN LevelsOf(defect_energies[i].k) :
                    LET t == LevelsOf(defect_energies[i].k)[n]
                    IN  defect_energies[i].v[j].k \in {t.c1, t.c2}

\* C24: the result of select_defects contains no name whose set of surviving
\* charges is empty: a name for which every charge was removed by the
\* whitelist, the excluded list or the keywords is dropped from the returned
\* mapping.
C24_NoNameWithoutCharges ==
    (SelectCalled /\ select_result = "return") =>
        \A i \in DOMAIN defect_set : defect_set[i].v # {}

\* ---- vocabulary of the independence claim
\* plot_energy without keywords and without exclude flags on a data set
Unfiltered(de) == PlotEnergy(de, vbm, cbm, None_, None_, FALSE, FALSE)

\* C27: the result of a request depends only on the data set as built and on
\* the request's own arguments, not on earlier requests on the same object: u
\* returns the same value and annotations before and after a plot_energy
\* call, and plot_energy with no filters gives the same transition levels
\* whether or not a plot_energy call with keywords or exclude flags ran
\* before it.
C27_RequestsIndependent ==
    [][call'.op = "plot_energy" =>
          /\ \A args \in UArguments :
                U(defect_energies', args[1], args[2], args[3])
                    = U(defect_energies, args[1], args[2], args[3])
          /\ Unfiltered(defect_energies').transition_levels
                = Unfiltered(defect_energies).transition_levels]_vars

\* ---- C25: DefectEntry.atom_mapping_to_perfect returns one entry per atom of
\* the defect structure: None exactly at the indices of the inserted atoms and,
\* at every other index, the index of the same atom in the perfect supercell;
\* removed indices never appear and the entries that are not None increase
\* strictly, for any number of removed and inserted atoms.
\* (The n-th site of the perfect supercell carries the coords n.)
InsertedIndices(entry) ==
    {entry.inserted_atoms[n] : n \in DOMAIN entry.inserted_atoms}

IsMappingToPerfect(mapping, entry) ==
    /\ Len(mapping) = Len(entry.initial_structure)
    /\ \A p \in DOMAIN mapping :
          IF p - 1 \in InsertedIndices(entry)
          THEN mapping[p] = NoneAtom
          ELSE mapping[p] = entry.initial_structure[p].coords - 1
    /\ \A p \in DOMAIN mapping :
          ~ DictHas(entry.removed_atoms, mapping[p])
    /\ \A p, q \in DOMAIN mapping :
          (p < q /\ mapping[p] # NoneAtom /\ mapping[q] # NoneAtom)
              => mapping[p] < mapping[q]

C25_MappingToPerfect ==
    call.op = "atom_mapping_to_perfect"
        => IsMappingToPerfect(returned, call.entry)

\* ---- C26: candidate_charge_set(i) is, for every integer i, the set of the
\* integers between 0 and i inclusive, plus -1 when i is a positive odd number
\* and plus 1 when i is a negative odd number; so it contains 0 and i and is
\* an interval of integers.
IsOdd(i) == \E k \in (-(MaxOxidation + 3))..(MaxOxidation + 3) : i = 2 * k + 1

C26_CandidateChargeInterval ==
    call.op = "candidate_charge_set"
        => LET i  == call.i
               lo == IF i > 0 /\ IsOdd(i) THEN -1 ELSE IF i < 0 THEN i ELSE 0
               hi == IF i < 0 /\ IsOdd(i) THEN 1 ELSE IF i > 0 THEN i ELSE 0
           IN  /\ returned = lo..hi
               /\ 0 \in returned
               /\ i \in returned

\* candidate_charge_set(-3) has been called and has returned a set with 1
C26_Witness ==
    /\ call.op = "candidate_charge_set"
    /\ call.i = -3
    /\ 1 \in returned

\* ---- C28: insert_atoms keeps the recorded indices valid across successive
\* insertions: every returned record's index is the position of that atom in
\* the returned structure, the recorded indices are distinct, the structure
\* has grown by exactly the number of inserted atoms, and the input structure
\* is unchanged.
RecordsValid(records, inserted_structure) ==
    /\ \A k \in DOMAIN records :
          /\ records[k].index \in 0..(Len(inserted_structure) - 1)
          /\ inserted_structure[records[k].index + 1]
                 = Site(records[k].element, records[k].coords)
    /\ \A j, k \in DOMAIN records :
          j # k => records[j].index # records[k].index

CountOf(records, element) ==
    Cardinality({n \in DOMAIN records : records[n].element = element})

ElementDiff(defect, element) ==
    CountOf(defect.inserted_atoms, element)
    - CountOf(defect.removed_atoms, element)

C29_ChangesPerDefect ==
    call.op = "_complex_set"
        => \A n \in DOMAIN returned :
              LET defect == returned[n].v
              IN  \A element \in InsertedElements :
                     IF DictHas(defect.changes_of_num_elements, element)
                     THEN DictGet(defect.changes_of_num_elements, element)
                              = ElementDiff(defect, element)
                     ELSE ElementDiff(defect, element) = 0

\* ---- C30: after DefectEnergies.from_objects over any list of defects, the
\* energy, multiplicity and magnetization tables have the same (name, charge,
\* annotation) key sets, with one entry per distinct key of the input; when a
\* key occurs more than once the last defect of the list supplies all three
\* values, and annotations of the same (name, charge) added earlier are kept.
TableEntries(table) ==
    { <<a, b, c>> \in (DOMAIN table) \X (1..MaxRecords + 1)
                      \X (1..MaxRecords + 1) :
        /\ b \in DOMAIN table[a].v
        /\ c \in DOMAIN table[a].v[b].v }

TableKeys(table) ==
    { <<table[e[1]].k, table[e[1]].v[e[2]].k, table[e[1]].v[e[2]].v[e[3]].k>> :
        e \in TableEntries(table) }

TableValue(table, key) ==
    DictGet(DictGet(DictGet(table, key[1]), key[2]), key[3])

KeyOfDefect(defect) == <<defect.name, defect.charge, defect.annotation>>

LastWith(defects, key) ==
    defects[SetMax({n \in DOMAIN defects : KeyOfDefect(defects[n]) = key})]

C30_TablesMirrorInput ==
    call.op = "from_objects"
        => LET defects == call.defects
               keys    == {KeyOfDefect(defects[n]) : n \in DOMAIN defects}
           IN  /\ TableKeys(defect_energies) = keys
               /\ TableKeys(multiplicity) = keys
               /\ TableKeys(magnetization) = keys
               /\ Cardinality(TableEntries(defect_energies)) = Cardinality(keys)
               /\ Cardinality(TableEntries(multiplicity)) = Cardinality(keys)
               /\ Cardinality(TableEntries(magnetization)) = Cardinality(keys)
               /\ \A key \in keys :
                     LET last == LastWith(defects, key)
                     IN  /\ TableValue(defect_energies, key)
                                = DefectEnergy(last.energy, last.convergence,
                                               last.is_shallow)
                         /\ TableValue(multiplicity, key) = Mul(last)
                         /\ TableValue(magnetization, key) = Mag(last)

\* a key has come twice with different values, and between the two another
\* annotation of the same name and charge has been added
C30_Witness ==
    /\ call.op = "from_objects"
    /\ Len(call.defects) = 3
    /\ KeyOfDefect(call.defects[1]) = KeyOfDefect(call.defects[3])
    /\ call.defects[1].energy # call.defects[3].energy
    /\ call.defects[2].name = call.defects[1].name
    /\ call.defects[2].charge = call.defects[1].charge
    /\ call.defects[2].annotation # call.defects[1].annotation
    /\ Cardinality(TableKeys(defect_energies)) = 2

====
